---- MODULE Spec2Model ----
(***************************************************************************)
(* Verification model of the custody-backed transaction orchestration      *)
(* engine of midnight-glacier-drop-sdk:                                     *)
(*   - the SDK pool (pool/sdkManager.ts) driven by                          *)
(*     FbNightApiService.executeTransaction (api/apiService.ts);            *)
(*   - the signing poll loop getTxStatus (utils/fireblocks.utils.ts);       *)
(*   - UTXO selection fetchAndSelectUtxos (utils/cardano.utils.ts) and its  *)
(*     validation in FireblocksMidnightSDK.fetchAndValidateUtxos;           *)
(*   - the proof-of-work loop ScavengerHuntService.solveChallenge and       *)
(*     matchesDifficulty (services/scavengerHunt.service.ts);               *)
(*   - the redemption FireblocksMidnightSDK.redeemNight with the window of  *)
(*     ThawsService.getRedemptionWindowTimes and the signing call           *)
(*     FireblocksService.broadcastTransaction around getTxStatus;           *)
(*   - the transfer FireblocksMidnightSDK.transferClaims around the UTXO    *)
(*     selection, and the utility createTransactionOutputs.                 *)
(* Each component has its own specification (SpecPool, SpecTx, SpecSelect, *)
(* SpecPow, SpecRedeem, SpecTransfer); the variables of the components a   *)
(* specification does not run stay at their initial value.                 *)
(***************************************************************************)
EXTENDS Integers, Sequences, FiniteSets, TLC

VARIABLES
    \* ---- SdkManager ----
    sdkPool,          \* Map<string, SdkPoolItem>, in insertion order
    poolConfig,       \* [maxPoolSize, idleTimeoutMs]
    cleanupInterval,  \* TRUE while the setInterval timer is armed
    now,              \* the wall clock read by new Date(), in ms ticks
    caller,           \* per client of the pool: position in getSdk and locals
    \* ---- getTxStatus ----
    txPc,             \* position of the one getTxStatus call
    txObserved,       \* the statuses its status queries have returned, in order
    txResponse,       \* txResponse.data of the last query: [status, subStatus]
    lastStatus,       \* the local lastStatus
    txLog,            \* number of "status changed" lines logged
    txError,          \* what the call threw
    \* ---- fetchAndValidateUtxos ----
    utxos,            \* what the provider lists at the address
    selInput,         \* the arguments of fetchAndSelectUtxos
    selPc,            \* position of the one fetchAndValidateUtxos call
    selResult,        \* what fetchAndSelectUtxos returned
    selError,         \* what the call threw
    \* ---- solveChallenge ----
    powPc,            \* position of the one solveChallenge call
    challengeDifficulty,  \* challenge.difficulty
    maxAttempts,      \* params.maxAttempts
    nonce,            \* the local nonce
    powHash,          \* the hash of the last pass
    powMatched,       \* what matchesDifficulty returned for it
    hashes,           \* ashMaize.hash calls made
    powResult,        \* what the call returned
    powNow,           \* the clock Date.now() reads, in ms
    lastProgressUpdate,  \* the local lastProgressUpdate
    onProgress,       \* TRUE when params.onProgress is supplied
    progress,         \* the onProgress calls made: how many, and the last one
    \* ---- redeemNight ----
    redPc,            \* position of the one redeemNight call
    redLog,           \* the steps it has finished, in order: [step, ok]
    phaseConfig,      \* validateRedemptionWindow's local config
    clock,            \* the two Date.now() reads of getRedemptionWindowTimes
    windowInfo,       \* validateRedemptionWindow's local windowInfo
    fbResponse,       \* what broadcastTransaction returned
    addressUtxos,     \* what lucid.utxosAt(destAddress) answered
    utxoHex,          \* the UTXO fetchAndConvertUtxo returned
    buildRequest,     \* the request buildRedemptionTransaction has sent
    redError,         \* what the call threw: [step, message]
    \* ---- transferClaims ----
    trPc,             \* position of the one transferClaims call
    trLog,            \* the steps it has finished, in order: [step, ok]
    txOutputs,        \* the outputs buildTransferTransaction pays
    outputs,          \* what createTransactionOutputs returned
    outputsError,     \* what createTransactionOutputs threw
    trError           \* what the call threw: [step, detail]

poolVars == <<sdkPool, poolConfig, cleanupInterval, now, caller>>
txVars == <<txPc, txObserved, txResponse, lastStatus, txLog, txError>>

selVars == <<utxos, selInput, selPc, selResult, selError>>

powVars == <<powPc, challengeDifficulty, maxAttempts, nonce, powHash, powMatched, hashes, powResult, powNow, lastProgressUpdate, onProgress, progress>>

redVars == <<redPc, redLog, phaseConfig, clock, windowInfo, fbResponse, addressUtxos, utxoHex, buildRequest, redError>>

trVars == <<trPc, trLog, txOutputs, outputs, outputsError, trError>>

vars == <<poolVars, txVars, selVars, powVars, redVars, trVars>>

\* what each component leaves alone
nonPoolVars == <<txVars, selVars, powVars, redVars, trVars>>
nonTxVars == <<poolVars, selVars, powVars, redVars, trVars>>
nonSelVars == <<poolVars, txVars, powVars, redVars, trVars>>
nonPowVars == <<poolVars, txVars, selVars, redVars, trVars>>

(***************************************************************************)
(* Bounds of the model.                                                    *)
(***************************************************************************)
MaxPoolSize == 1       \* largest poolConfig.maxPoolSize a manager is built with
IdleTimeout == 1       \* the poolConfig.idleTimeoutMs the manager is built with, in clock ticks
MaxTime == 2           \* the clock stops advancing here

Callers == {"a", "b"}      \* concurrent executeTransaction calls
VaultIds == {"1", "2", "3"}
Chains == {"cardano"}

(***************************************************************************)
(* SdkManager                                                              *)
(***************************************************************************)

\* const key = `${vaultAccountId}:${chain}`
PoolKey(vaultAccountId, chain) == vaultAccountId \o ":" \o chain

Keys == {PoolKey(v, c) : v \in VaultIds, c \in Chains}

\* this.sdkPool.get(key): the position of the entry, 0 when there is none
PoolGet(pool, key) ==
    IF \E i \in DOMAIN pool : pool[i].key = key
    THEN CHOOSE i \in DOMAIN pool : pool[i].key = key
    ELSE 0

\* this.sdkPool.set(key, item): a known key keeps its place in the map
PoolSet(pool, key, item) ==
    LET i == PoolGet(pool, key)
        e == [key |-> key, sdk |-> item.sdk, lastUsed |-> item.lastUsed,
              isInUse |-> item.isInUse]
    IN IF i = 0 THEN Append(pool, e) ELSE [pool EXCEPT ![i] = e]

\* this.sdkPool.delete(key)
PoolDelete(pool, key) == SelectSeq(pool, LAMBDA e : e.key # key)

\* a reuse that leaves lastUsed as it was
MarkInUseKeepsTime(pool, i, t) ==
    [pool EXCEPT ![i] = [@ EXCEPT !.isInUse = TRUE]]

\* poolItem.lastUsed = new Date(); poolItem.isInUse = true
MarkInUse(pool, i, t) ==
    [pool EXCEPT ![i] = [@ EXCEPT !.lastUsed = t, !.isInUse = TRUE]]

\* the loop of removeOldestIdleSdk from entry i on: oldestKey (as a position,
\* 0 for null) and oldestDate after the scan
RECURSIVE ScanOldestIdle(_, _, _, _)
ScanOldestIdle(pool, i, oldestKey, oldestDate) ==
    IF i > Len(pool) THEN oldestKey
    ELSE IF ~pool[i].isInUse /\ pool[i].lastUsed < oldestDate
         THEN ScanOldestIdle(pool, i + 1, i, pool[i].lastUsed)
         ELSE ScanOldestIdle(pool, i + 1, oldestKey, oldestDate)

\* a scan that forgets to look at isInUse
ScanOldestAny(pool, t) ==
    IF \E i \in DOMAIN pool : pool[i].lastUsed < t
    THEN CHOOSE i \in DOMAIN pool :
            /\ pool[i].lastUsed < t
            /\ \A j \in DOMAIN pool : pool[j].lastUsed >= pool[i].lastUsed
    ELSE 0

\* let oldestKey = null; let oldestDate = new Date(); for (...) {...}
OldestIdle(pool, t) == ScanOldestIdle(pool, 1, 0, t)

\* an eviction that deletes the entry and reports that it found none
removeOldestIdleSdkSilently(pool, t) ==
    LET oldestKey == OldestIdle(pool, t)
    IN IF oldestKey # 0
       THEN [removed |-> FALSE, pool |-> PoolDelete(pool, pool[oldestKey].key)]
       ELSE [removed |-> FALSE, pool |-> pool]

\* removeOldestIdleSdk: [removed, pool]
removeOldestIdleSdk(pool, t) ==
    LET oldestKey == OldestIdle(pool, t)
    IN IF oldestKey # 0
       THEN [removed |-> TRUE, pool |-> PoolDelete(pool, pool[oldestKey].key)]
       ELSE [removed |-> FALSE, pool |-> pool]

\* a release that, finding no entry under its argument, takes the argument
\* for a vault account id and releases that account's entries
releaseSdkOfVault(pool, vaultAccountId, t) ==
    LET i == PoolGet(pool, vaultAccountId)
    IN IF i # 0
       THEN [pool EXCEPT ![i] = [@ EXCEPT !.isInUse = FALSE, !.lastUsed = t]]
       ELSE [j \in DOMAIN pool |->
                IF \E c \in Chains : pool[j].key = PoolKey(vaultAccountId, c)
                THEN [pool[j] EXCEPT !.isInUse = FALSE, !.lastUsed = t]
                ELSE pool[j]]

\* releaseSdk(vaultAccountId): looks the argument up as a pool key
releaseSdk(pool, vaultAccountId, t) ==
    LET i == PoolGet(pool, vaultAccountId)
    IN IF i # 0
       THEN [pool EXCEPT ![i] = [@ EXCEPT !.isInUse = FALSE, !.lastUsed = t]]
       ELSE pool

\* a sweep that forgets to look at isInUse
ExpiredAny(e, t, idleTimeoutMs) == t - e.lastUsed > idleTimeoutMs

\* a sweep that forgets the timeout
IdleWhateverTheTime(e, t, idleTimeoutMs) ==
    ~e.isInUse

\* the entries cleanupIdleSdks collects in keysToRemove
IdleExpired(e, t, idleTimeoutMs) ==
    ~e.isInUse /\ t - e.lastUsed > idleTimeoutMs

\* cleanupIdleSdks: the pool after both loops
cleanupIdleSdks(pool, t, idleTimeoutMs) ==
    SelectSeq(pool, LAMBDA e : ~IdleExpired(e, t, idleTimeoutMs))

\* FireblocksMidnightSDK.create({vaultAccountId, chain}): a new object, told
\* apart from every handle of that key a pool entry or a client still refers to
NoSdk == [key |-> "", n |-> 0]
HandlesInUse ==
    {sdkPool[i].sdk : i \in DOMAIN sdkPool}
        \cup {caller[p].sdk : p \in Callers}
FreshSdk(key) ==
    [key |-> key,
     n |-> CHOOSE n \in 1..(Cardinality(HandlesInUse) + 1) :
              /\ [key |-> key, n |-> n] \notin HandlesInUse
              /\ \A m \in 1..(n - 1) : [key |-> key, n |-> m] \in HandlesInUse]

\* a client that is not in a call
IdleCaller ==
    [pc |-> "idle", vaultAccountId |-> "", chain |-> "", removed |-> FALSE,
     sdk |-> NoSdk]

TypeOKPool ==
    /\ poolConfig \in [maxPoolSize : 1..MaxPoolSize, idleTimeoutMs : {IdleTimeout}]
    /\ cleanupInterval \in BOOLEAN
    /\ now \in 0..MaxTime
    /\ \A i \in DOMAIN sdkPool :
          /\ sdkPool[i].key \in Keys
          /\ sdkPool[i].lastUsed \in 0..MaxTime
          /\ sdkPool[i].isInUse \in BOOLEAN
    /\ \A p \in Callers :
          caller[p].pc \in {"idle", "evicting", "creating", "holding"}

\* new SdkManager(baseConfig, poolConfig): an empty pool, the timer armed
InitPool ==
    /\ sdkPool = << >>
    /\ poolConfig \in [maxPoolSize : 1..MaxPoolSize, idleTimeoutMs : {IdleTimeout}]
    /\ cleanupInterval = TRUE
    /\ now = 0
    /\ caller = [p \in Callers |-> IdleCaller]

\* a client (executeTransaction, or a direct user of the manager) calls
\* getSdk(vaultAccountId, chain); getSdk runs up to
\* its first await (or to its return when the entry exists)
GetSdk(p, vaultAccountId, chain) ==
    /\ caller[p].pc = "idle"
    /\ LET key == PoolKey(vaultAccountId, chain)
           poolItem == PoolGet(sdkPool, key)
           started == [caller[p] EXCEPT !.vaultAccountId = vaultAccountId,
                                        !.chain = chain]
       IN IF poolItem # 0 /\ ~sdkPool[poolItem].isInUse
          THEN \* reuse of an idle entry
               /\ sdkPool' = MarkInUse(sdkPool, poolItem, now)
               /\ caller' = [caller EXCEPT ![p] =
                     [started EXCEPT !.pc = "holding", !.sdk = sdkPool[poolItem].sdk]]
          ELSE IF Len(sdkPool) >= poolConfig.maxPoolSize /\ poolItem = 0
          THEN \* const removed = await this.removeOldestIdleSdk()
               LET r == removeOldestIdleSdk(sdkPool, now)
               IN /\ sdkPool' = r.pool
                  /\ caller' = [caller EXCEPT ![p] =
                        [started EXCEPT !.pc = "evicting", !.removed = r.removed]]
          ELSE IF poolItem = 0
          THEN \* await this.createSdkInstance(vaultAccountId, chain)
               /\ sdkPool' = sdkPool
               /\ caller' = [caller EXCEPT ![p] = [started EXCEPT !.pc = "creating"]]
          ELSE \* the entry exists and is in use: the final else branch
               /\ sdkPool' = MarkInUse(sdkPool, poolItem, now)
               /\ caller' = [caller EXCEPT ![p] =
                     [started EXCEPT !.pc = "holding", !.sdk = sdkPool[poolItem].sdk]]
    /\ UNCHANGED <<poolConfig, cleanupInterval, now>>
    /\ UNCHANGED nonPoolVars

\* getSdk resumes after await removeOldestIdleSdk()
GetSdkAfterEvict(p) ==
    /\ caller[p].pc = "evicting"
    /\ IF ~caller[p].removed
       THEN \* throw new Error("SDK pool is at maximum capacity ...")
            \* the call rejects; the client has no handle
            caller' = [caller EXCEPT ![p] = IdleCaller]
       ELSE caller' = [caller EXCEPT ![p] = [@ EXCEPT !.pc = "creating"]]
    /\ UNCHANGED <<sdkPool, poolConfig, cleanupInterval, now>>
    /\ UNCHANGED nonPoolVars

\* a getSdk that stores the entry whether or not createSdkInstance succeeded
GetSdkCreatedStoresAnyway(p, ok) ==
    /\ caller[p].pc = "creating"
    /\ LET key == PoolKey(caller[p].vaultAccountId, caller[p].chain)
           sdk == FreshSdk(key)
       IN /\ sdkPool' = PoolSet(sdkPool, key,
                            [sdk |-> sdk, lastUsed |-> now, isInUse |-> TRUE])
          /\ caller' = [caller EXCEPT ![p] =
                IF ok THEN [@ EXCEPT !.pc = "holding", !.sdk = sdk] ELSE IdleCaller]
    /\ UNCHANGED <<poolConfig, cleanupInterval, now>>
    /\ UNCHANGED nonPoolVars

\* createSdkInstance settles: the handle is stored and returned, or the
\* error is rethrown
GetSdkCreated(p, ok) ==
    /\ caller[p].pc = "creating"
    /\ IF ok
       THEN LET key == PoolKey(caller[p].vaultAccountId, caller[p].chain)
                sdk == FreshSdk(key)
            IN /\ sdkPool' = PoolSet(sdkPool, key,
                                [sdk |-> sdk, lastUsed |-> now, isInUse |-> TRUE])
               /\ caller' = [caller EXCEPT ![p] =
                                [@ EXCEPT !.pc = "holding", !.sdk = sdk]]
       ELSE /\ sdkPool' = sdkPool
            /\ caller' = [caller EXCEPT ![p] = IdleCaller]
    /\ UNCHANGED <<poolConfig, cleanupInterval, now>>
    /\ UNCHANGED nonPoolVars

\* executeTransaction: the operation on the handle settles (ok or thrown) and
\* the finally block runs this.sdkManager.releaseSdk(vaultAccountId)
ExecuteFinally(p, ok) ==
    /\ caller[p].pc = "holding"
    /\ sdkPool' = releaseSdk(sdkPool, caller[p].vaultAccountId, now)
    /\ caller' = [caller EXCEPT ![p] = IdleCaller]
    /\ UNCHANGED <<poolConfig, cleanupInterval, now>>
    /\ UNCHANGED nonPoolVars

\* a client of the manager that releases what it acquired under the pool key
\* it was stored with: manager.releaseSdk(`${vaultAccountId}:${chain}`)
ReleaseSdk(p) ==
    /\ caller[p].pc = "holding"
    /\ sdkPool' = releaseSdk(sdkPool,
                     PoolKey(caller[p].vaultAccountId, caller[p].chain), now)
    /\ caller' = [caller EXCEPT ![p] = IdleCaller]
    /\ UNCHANGED <<poolConfig, cleanupInterval, now>>
    /\ UNCHANGED nonPoolVars

\* a sweep that runs whether or not the timer was cleared
CleanupIdleSdksAlways ==
    /\ sdkPool' = cleanupIdleSdks(sdkPool, now, poolConfig.idleTimeoutMs)
    /\ UNCHANGED <<poolConfig, cleanupInterval, now, caller>>
    /\ UNCHANGED nonPoolVars

\* the interval timer fires
CleanupIdleSdks ==
    /\ cleanupInterval
    /\ sdkPool' = cleanupIdleSdks(sdkPool, now, poolConfig.idleTimeoutMs)
    /\ UNCHANGED <<poolConfig, cleanupInterval, now, caller>>
    /\ UNCHANGED nonPoolVars

\* shutdown(): clearInterval and sdkPool.clear()
Shutdown ==
    /\ cleanupInterval' = FALSE
    /\ sdkPool' = << >>
    /\ UNCHANGED <<poolConfig, now, caller>>
    /\ UNCHANGED nonPoolVars

\* time passes
Tick ==
    /\ now < MaxTime
    /\ now' = now + 1
    /\ UNCHANGED <<sdkPool, poolConfig, cleanupInterval, caller>>
    /\ UNCHANGED nonPoolVars

\* ---- reading the pool ----
\* getMetrics().activeInstances: the entries with isInUse
activeInstances(pool) == Cardinality({i \in DOMAIN pool : pool[i].isInUse})
InUseKeys(pool) == {pool[i].key : i \in {j \in DOMAIN pool : pool[j].isInUse}}
IdleIdx(pool) == {i \in DOMAIN pool : ~pool[i].isInUse}
Holding(p) == caller[p].pc = "holding"
CallerKey(p) == PoolKey(caller[p].vaultAccountId, caller[p].chain)

NextPool ==
    \/ \E p \in Callers, v \in VaultIds, c \in Chains : GetSdk(p, v, c)
    \/ \E p \in Callers : GetSdkAfterEvict(p)
    \/ \E p \in Callers, ok \in BOOLEAN : GetSdkCreated(p, ok)
    \/ \E p \in Callers, ok \in BOOLEAN : ExecuteFinally(p, ok)
    \/ \E p \in Callers : ReleaseSdk(p)
    \/ CleanupIdleSdks
    \/ Shutdown
    \/ Tick


(***************************************************************************)
(* getTxStatus: the signing poll loop                                      *)
(***************************************************************************)
MaxPolls == 3          \* status queries one getTxStatus call may issue

\* TransactionStateEnum, as getTxStatus documents it
SuccessStates == {"COMPLETED", "BROADCASTING"}
FailureStates == {"BLOCKED", "CANCELLED", "FAILED", "REJECTED"}
TransientStates ==
    {"SUBMITTED", "QUEUED", "PENDING_SIGNATURE", "PENDING_AUTHORIZATION",
     "PENDING_3RD_PARTY_MANUAL_APPROVAL", "PENDING_3RD_PARTY"}
TransactionStates == SuccessStates \cup FailureStates \cup TransientStates
SubStatuses == {"", "REJECTED_BY_POLICY"}

\* what fireblocks.transactions.getTransaction can answer
TxResponses == [status : TransactionStates, subStatus : SubStatuses]
NoResponse == [status : {"none"}, subStatus : {""}]

\* a loop that also takes PENDING_SIGNATURE for an end
LoopStopsEarly(status) ==
    status \notin {"COMPLETED", "BROADCASTING", "PENDING_SIGNATURE"}

\* while (status !== Completed && status !== Broadcasting)
LoopGoesOn(status) ==
    status # "COMPLETED" /\ status # "BROADCASTING"

\* the switch inside the loop
SwitchThrows(status) ==
    status \in {"BLOCKED", "CANCELLED", "FAILED", "REJECTED"}

\* what getTxStatus throws: the status and sub-status of its message, or the
\* error of a getTransaction that rejected
NoTxError == [status |-> "none", subStatus |-> ""]
TransportError == [status |-> "transport", subStatus |-> ""]

\* the record of the statuses seen and the count of logged changes: kept
\* for the first MaxPolls queries of a call
Observe(observed, status) ==
    IF Len(observed) < MaxPolls THEN Append(observed, status) ELSE observed
CountChange(n) == IF n < MaxPolls THEN n + 1 ELSE n

TxNotStarted ==
    /\ txPc = "idle"
    /\ txObserved = << >>
    /\ txResponse \in NoResponse
    /\ lastStatus = "none"
    /\ txLog = 0
    /\ txError = NoTxError

InitTx ==
    /\ txPc = "start"
    /\ txObserved = << >>
    /\ txResponse \in NoResponse
    /\ lastStatus = "none"
    /\ txLog = 0
    /\ txError = NoTxError

\* the first getTransaction, before the loop
TxFirstQuery(r) ==
    /\ txPc = "start"
    /\ txObserved' = Observe(txObserved, r.status)
    /\ txResponse' = r
    /\ lastStatus' = r.status
    /\ txPc' = IF LoopGoesOn(r.status) THEN "sleep" ELSE "returned"
    /\ UNCHANGED <<txLog, txError>>
    /\ UNCHANGED nonTxVars

\* await new Promise((resolve) => setTimeout(resolve, pollingInterval)),
\* of a call that is followed for its first MaxPolls queries
TxSleep ==
    /\ txPc = "sleep"
    /\ Len(txObserved) < MaxPolls
    /\ txPc' = "poll"
    /\ UNCHANGED <<txObserved, txResponse, lastStatus, txLog, txError>>
    /\ UNCHANGED nonTxVars

\* a loop body that logs a change and forgets to remember the new status
TxPollKeepsLastStatus(r) ==
    /\ txPc = "poll"
    /\ txObserved' = Observe(txObserved, r.status)
    /\ txResponse' = r
    /\ IF r.status # lastStatus
       THEN txLog' = CountChange(txLog) /\ lastStatus' = lastStatus
       ELSE UNCHANGED <<txLog, lastStatus>>
    /\ IF SwitchThrows(r.status)
       THEN /\ txPc' = "failed"
            /\ txError' = [status |-> r.status, subStatus |-> r.subStatus]
       ELSE /\ txPc' = IF LoopGoesOn(r.status) THEN "sleep" ELSE "returned"
            /\ txError' = txError
    /\ UNCHANGED nonTxVars

\* one pass of the loop body after the sleep
TxPoll(r) ==
    /\ txPc = "poll"
    /\ txObserved' = Observe(txObserved, r.status)
    /\ txResponse' = r
    /\ IF r.status # lastStatus
       THEN txLog' = CountChange(txLog) /\ lastStatus' = r.status
       ELSE UNCHANGED <<txLog, lastStatus>>
    /\ IF SwitchThrows(r.status)
       THEN /\ txPc' = "failed"
            /\ txError' = [status |-> r.status, subStatus |-> r.subStatus]
       ELSE /\ txPc' = IF LoopGoesOn(r.status) THEN "sleep" ELSE "returned"
            /\ txError' = txError
    /\ UNCHANGED nonTxVars
 
\* getTransaction rejects (transport error): caught, logged, rethrown
TxQueryThrows ==
    /\ txPc \in {"start", "poll"}
    /\ txPc' = "failed"
    /\ txError' = TransportError
    /\ UNCHANGED <<txObserved, txResponse, lastStatus, txLog>>
    /\ UNCHANGED nonTxVars

NextTx ==
    \/ \E r \in TxResponses : TxFirstQuery(r)
    \/ TxSleep
    \/ \E r \in TxResponses : TxPoll(r)
    \/ TxQueryThrows

\* the same sleep of a call that is followed for as long as it polls
TxSleepOn ==
    /\ txPc = "sleep"
    /\ txPc' = "poll"
    /\ UNCHANGED <<txObserved, txResponse, lastStatus, txLog, txError>>
    /\ UNCHANGED nonTxVars

\* an awaited getTransaction settles: it answers or it rejects
TxQuerySettles ==
    \/ \E r \in TxResponses : TxFirstQuery(r)
    \/ \E r \in TxResponses : TxPoll(r)
    \/ TxQueryThrows

NextTxOn ==
    \/ \E r \in TxResponses : TxFirstQuery(r)
    \/ TxSleepOn
    \/ \E r \in TxResponses : TxPoll(r)
    \/ TxQueryThrows

(***************************************************************************)
(* UTXO selection: fetchAndSelectUtxos and fetchAndValidateUtxos           *)
(***************************************************************************)
MaxUtxos == 2          \* UTXOs the provider lists at the address
MaxLovelace == 2       \* lovelace in one UTXO
MaxToken == 2          \* token quantity in one UTXO, on top of 0 or 2^53
MaxMinChange == 1      \* the minChangeLovelace a caller passes
MinRecipient == 1      \* the minRecipientLovelace the caller passes
Fee == 1               \* the transactionFee the caller passes

\* An integer big * 2^53 + small, small far below 2^53.  On-chain quantities
\* are such integers; a JS Number is one that a double represents exactly.
Quantity(big, small) == [big |-> big, small |-> small]
Zero == Quantity(0, 0)

\* the distance between neighbouring doubles at big * 2^53 + small
RECURSIVE Spacing(_)
Spacing(big) == IF big = 0 THEN 1 ELSE 2 * Spacing(big \div 2)

\* round n to a multiple of sp, to nearest, ties to the even multiple
RoundEven(n, sp) ==
    LET q == n \div sp
        r == n % sp
    IN IF 2 * r < sp THEN q * sp
       ELSE IF 2 * r > sp THEN (q + 1) * sp
       ELSE IF q % 2 = 0 THEN q * sp ELSE (q + 1) * sp

\* the double nearest to an integer: what parseInt and + produce
ToNumber(x) == Quantity(x.big, RoundEven(x.small, Spacing(x.big)))

\* integer addition, and < on integers
ExactAdd(a, b) == Quantity(a.big + b.big, a.small + b.small)
NumLess(a, b) == a.big < b.big \/ (a.big = b.big /\ a.small < b.small)

\* a + b on Numbers
NumAdd(a, b) == ToNumber(ExactAdd(a, b))

\* parseInt(quantity, 10)
ParseInt(quantity) == ToNumber(quantity)

\* calculateTokenAmount(utxo, policyId, nightTokenName); a UTXO without the
\* asset has token = Zero
calculateTokenAmount(utxo) == ParseInt(utxo.token)

getLovelaceAmount(utxo) == utxo.lovelace

\* what the provider can list at an address
TokenQuantities == {Quantity(b, s) : b \in {0, 1}, s \in 0..MaxToken}
Utxo == [lovelace : 1..MaxLovelace, token : TokenQuantities]
UtxoLists == UNION {[1..n -> Utxo] : n \in 0..MaxUtxos}

\* the Numbers a caller can pass as requiredTokenAmount
RequiredAmounts == {ToNumber(q) : q \in TokenQuantities}

Indices(us) == [i \in 1..Len(us) |-> i]

\* filterUtxos: the UTXOs holding the token, in listing order (by index)
filterUtxos(us) ==
    SelectSeq(Indices(us), LAMBDA i : NumLess(Zero, calculateTokenAmount(us[i])))

\* .sort((a, b) => b.tokenAmount - a.tokenAmount): stable, descending
SortByTokenDesc(idx, us) ==
    LET n == Len(idx)
        key(k) == calculateTokenAmount(us[idx[k]])
        rank(k) == 1 + Cardinality({j \in 1..n :
                          \/ NumLess(key(k), key(j))
                          \/ (key(j) = key(k) /\ j < k)})
    IN [r \in 1..n |-> idx[CHOOSE k \in 1..n : rank(k) = r]]

\* a sort by lovelace that puts the smallest first
SortByAdaAsc(idx, us) ==
    LET n == Len(idx)
        key(k) == getLovelaceAmount(us[idx[k]])
        rank(k) == 1 + Cardinality({j \in 1..n :
                          \/ key(j) < key(k)
                          \/ (key(j) = key(k) /\ j < k)})
    IN [r \in 1..n |-> idx[CHOOSE k \in 1..n : rank(k) = r]]

\* .sort((a, b) => b.adaAmount - a.adaAmount): stable, descending
SortByAdaDesc(idx, us) ==
    LET n == Len(idx)
        key(k) == getLovelaceAmount(us[idx[k]])
        rank(k) == 1 + Cardinality({j \in 1..n :
                          \/ key(k) < key(j)
                          \/ (key(j) = key(k) /\ j < k)})
    IN [r \in 1..n |-> idx[CHOOSE k \in 1..n : rank(k) = r]]

\* "Accumulate token UTXOs": the first loop, from position k of the sorted
\* token UTXOs, acc = [selectedUtxos, accumulatedTokenAmount, accumulatedAda]
RECURSIVE AccumulateTokenUtxos(_, _, _, _, _, _)
AccumulateTokenUtxos(sorted, k, us, acc, requiredTokenAmount, adaFloor) ==
    IF k > Len(sorted) THEN acc
    ELSE LET utxo == us[sorted[k]]
             next == [selectedUtxos |-> Append(acc.selectedUtxos, sorted[k]),
                      accumulatedTokenAmount |->
                          NumAdd(acc.accumulatedTokenAmount, calculateTokenAmount(utxo)),
                      accumulatedAda |-> acc.accumulatedAda + getLovelaceAmount(utxo)]
         IN IF /\ ~NumLess(next.accumulatedTokenAmount, requiredTokenAmount)
               /\ next.accumulatedAda >= adaFloor
            THEN next   \* break
            ELSE AccumulateTokenUtxos(sorted, k + 1, us, next,
                                      requiredTokenAmount, adaFloor)

\* the second loop, over the remaining UTXOs sorted by lovelace
RECURSIVE AccumulateAdaUtxos(_, _, _, _, _)
AccumulateAdaUtxos(adaUtxos, k, us, acc, adaTarget) ==
    IF k > Len(adaUtxos) THEN acc
    ELSE LET next == [acc EXCEPT
                        !.selectedUtxos = Append(@, adaUtxos[k]),
                        !.accumulatedAda = @ + getLovelaceAmount(us[adaUtxos[k]])]
         IN IF next.accumulatedAda >= adaTarget
            THEN next   \* break
            ELSE AccumulateAdaUtxos(adaUtxos, k + 1, us, next, adaTarget)

InSeq(x, s) == \E i \in DOMAIN s : s[i] = x

NoResult == [selectedUtxos |-> << >>, accumulatedTokenAmount |-> Zero,
             accumulatedAda |-> 0]

\* fetchAndSelectUtxos after fetchUtxos has answered us:
\* [thrown, result]; thrown when filterUtxos finds no token UTXO
fetchAndSelectUtxos(us, requiredTokenAmount, transactionFee, minRecipientLovelace, minChangeLovelace) ==
    LET filtered == filterUtxos(us)
        tokenUtxosWithAmounts == SortByTokenDesc(filtered, us)
        first == AccumulateTokenUtxos(tokenUtxosWithAmounts, 1, us, NoResult,
                     requiredTokenAmount, minRecipientLovelace + transactionFee)
        adaTarget == minRecipientLovelace + transactionFee + minChangeLovelace
        remainingUtxos ==
            SelectSeq(Indices(us), LAMBDA i : ~InSeq(i, first.selectedUtxos))
        adaUtxos == SortByAdaDesc(remainingUtxos, us)
    IN IF Len(filtered) = 0
       THEN [thrown |-> TRUE, result |-> NoResult]
       ELSE IF first.accumulatedAda < adaTarget
       THEN [thrown |-> FALSE,
             result |-> AccumulateAdaUtxos(adaUtxos, 1, us, first, adaTarget)]
       ELSE [thrown |-> FALSE, result |-> first]

NoError == [code |-> "none", requiredTokenAmount |-> Zero,
            accumulatedTokenAmount |-> Zero, requiredAda |-> 0,
            accumulatedAda |-> 0]
PlainError(code) == [NoError EXCEPT !.code = code]

\* validateSufficientBalance: the error it throws, NoError when it returns
validateSufficientBalance(accumulatedAda, accumulatedTokenAmount, requiredTokenAmount, minRecipientLovelace, transactionFee) ==
    LET adaTarget == minRecipientLovelace + transactionFee
    IN IF \/ NumLess(accumulatedTokenAmount, requiredTokenAmount)
          \/ accumulatedAda < adaTarget
       THEN [code |-> "INSUFFICIENT_BALANCE",
             requiredTokenAmount |-> requiredTokenAmount,
             accumulatedTokenAmount |-> accumulatedTokenAmount,
             requiredAda |-> adaTarget,
             accumulatedAda |-> accumulatedAda]
       ELSE NoError

SelInputs ==
    [requiredTokenAmount : RequiredAmounts, transactionFee : {Fee},
     minRecipientLovelace : {MinRecipient}, minChangeLovelace : 0..MaxMinChange]

SelNotStarted ==
    /\ utxos = << >>
    /\ selInput = [requiredTokenAmount |-> Zero, transactionFee |-> 0,
                   minRecipientLovelace |-> 0, minChangeLovelace |-> 0]
    /\ selPc = "idle"
    /\ selResult = NoResult
    /\ selError = NoError

\* transferClaims reaches fetchAndValidateUtxos: some UTXO list at the
\* address, some arguments
InitSelect ==
    /\ utxos \in UtxoLists
    /\ selInput \in SelInputs
    /\ selPc = "start"
    /\ selResult = NoResult
    /\ selError = NoError

\* fetchUtxos answers and fetchAndSelectUtxos runs to its return or throw
FetchAndSelectUtxos ==
    /\ selPc = "start"
    /\ LET r == fetchAndSelectUtxos(utxos, selInput.requiredTokenAmount,
                    selInput.transactionFee, selInput.minRecipientLovelace,
                    selInput.minChangeLovelace)
       IN IF r.thrown
          THEN /\ selPc' = "failed"
               /\ selError' = PlainError("NO_TOKEN_UTXOS")
               /\ selResult' = selResult
          ELSE /\ selPc' = "selected"
               /\ selResult' = r.result
               /\ selError' = selError
    /\ UNCHANGED <<utxos, selInput>>
    /\ UNCHANGED nonSelVars

\* blockfrost.addressesUtxos rejects: "fb service error"
FetchUtxosThrows ==
    /\ selPc = "start"
    /\ selPc' = "failed"
    /\ selError' = PlainError("FETCH")
    /\ UNCHANGED <<utxos, selInput, selResult>>
    /\ UNCHANGED nonSelVars

\* fetchAndValidateUtxos goes on: validateSufficientBalance, then return
ValidateSufficientBalance ==
    /\ selPc = "selected"
    /\ LET e == validateSufficientBalance(selResult.accumulatedAda,
                    selResult.accumulatedTokenAmount, selInput.requiredTokenAmount,
                    selInput.minRecipientLovelace, selInput.transactionFee)
       IN /\ selError' = e
          /\ selPc' = IF e.code = "none" THEN "returned" ELSE "failed"
    /\ UNCHANGED <<utxos, selInput, selResult>>
    /\ UNCHANGED nonSelVars

\* the selection at an address that lists up to MaxAdaUtxos UTXOs, each with
\* one unit of the token or none: enough UTXOs for the second loop to have
\* a choice
MaxAdaUtxos == 3       \* UTXOs listed when the second loop has a choice
UnitUtxo == [lovelace : 1..MaxLovelace, token : {Zero, Quantity(0, 1)}]
UnitUtxoLists == UNION {[1..n -> UnitUtxo] : n \in 0..MaxAdaUtxos}

\* the caller asks for one or two units
UnitInputs ==
    [requiredTokenAmount : {Quantity(0, 1), Quantity(0, 2)}, transactionFee : {Fee},
     minRecipientLovelace : {MinRecipient}, minChangeLovelace : 0..MaxMinChange]

InitPhase2 ==
    /\ utxos \in UnitUtxoLists
    /\ selInput \in UnitInputs
    /\ selPc = "start"
    /\ selResult = NoResult
    /\ selError = NoError

NextSelect ==
    \/ FetchAndSelectUtxos
    \/ FetchUtxosThrows
    \/ ValidateSufficientBalance

(***************************************************************************)
(* Proof of work: ScavengerHuntService.solveChallenge, matchesDifficulty   *)
(***************************************************************************)
MaxNonce == 3          \* nonces one solveChallenge call gets to try
MaxAttempts == 2       \* the largest maxAttempts a caller passes
PrefixLen == 8         \* substring(0, 8)

\* hex strings, as sequences of hex digit values: a leading digit, a run of
\* three and a run of four equal digits
PatternStrings ==
    {<<h, m, m, m, l, l, l, l>> : h \in {0, 7, 8, 15}, m \in {0, 15}, l \in {0, 15}}

\* the strings of matchesDifficulty's documented example, with two more digits
\* standing for the rest of each string
Difficulty00FF0000 == <<0, 0, 15, 15, 0, 0, 0, 0, 0, 0>>
Hash00123456 == <<0, 0, 1, 2, 3, 4, 5, 6, 7, 8>>
HashFF123456 == <<15, 15, 1, 2, 3, 4, 5, 6, 7, 8>>
ExampleStrings == {Difficulty00FF0000, Hash00123456, HashFF123456}

\* the difficulties and hashes the model draws from
HexStrings == PatternStrings \cup ExampleStrings

\* s.substring(0, n)
Substring(s, n) == SubSeq(s, 1, IF Len(s) < n THEN Len(s) ELSE n)

\* parseInt(digits, 16) for at most four hex digits
RECURSIVE ParseHex16(_)
ParseHex16(digits) ==
    IF digits = << >> THEN 0
    ELSE 16 * ParseHex16(SubSeq(digits, 1, Len(digits) - 1)) + digits[Len(digits)]

\* parseInt(prefix, 16) for at most eight hex digits: a Number in
\* 0..0xFFFFFFFF, kept as hi * 65536 + lo
ParseHex(prefix) ==
    LET n == Len(prefix)
    IN IF n <= 4 THEN [hi |-> 0, lo |-> ParseHex16(prefix)]
       ELSE [hi |-> ParseHex16(SubSeq(prefix, 1, n - 4)),
             lo |-> ParseHex16(SubSeq(prefix, n - 3, n))]

\* bitwise OR of two naturals
RECURSIVE BitOr(_, _)
BitOr(a, b) ==
    IF a = 0 THEN b
    ELSE IF b = 0 THEN a
    ELSE (IF a % 2 = 1 \/ b % 2 = 1 THEN 1 ELSE 0) + 2 * BitOr(a \div 2, b \div 2)

\* OR of the two 32-bit patterns, read as an unsigned value
UnsignedOr(a, b) == [hi |-> BitOr(a.hi, b.hi), lo |-> BitOr(a.lo, b.lo)]

\* ToInt32: the 32-bit pattern read as a signed value, hi in -32768..32767
ToInt32(x) == [hi |-> IF x.hi >= 32768 THEN x.hi - 65536 ELSE x.hi, lo |-> x.lo]

\* a | b in JS: both operands through ToInt32, the result a signed int32
JsOr(a, b) == ToInt32(UnsignedOr(a, b))

\* matchesDifficulty(hash, difficulty)
matchesDifficulty(hash, difficulty) ==
    LET hashPrefix == Substring(hash, PrefixLen)
        diffPrefix == Substring(difficulty, PrefixLen)
        hashBits == ParseHex(hashPrefix)
        diffBits == ParseHex(diffPrefix)
    IN JsOr(hashBits, diffBits) = diffBits

\* params.maxAttempts: undefined, or a bigint
MaxAttemptsValues ==
    [supplied : {FALSE}, value : {0}] \cup [supplied : {TRUE}, value : 0..MaxAttempts]

\* the truthiness of maxAttempts: undefined and 0n are falsy
Truthy(m) == m.supplied /\ m.value # 0

\* if (maxAttempts && nonce >= maxAttempts)
GivesUp(m, n) == Truthy(m) /\ n >= m.value

NoHash == << >>
NoSolution == [nonce |-> 0, hash |-> NoHash, attempts |-> 0]

ProgressIntervalMs == 1000   \* Date.now() - lastProgressUpdate > 1000

\* what the clock can advance by while one await settles, and between two
\* Date.now() reads of one synchronous stretch
PassTimes == {0, ProgressIntervalMs, ProgressIntervalMs + 1}
ReadLags == {0, 1}

\* the one step of the clock where the hashes are what is explored
CoarseTimes == {ProgressIntervalMs + 1}

\* a progress test that also fires at exactly one second
ProgressDueAtOrAfter(t, last) == t - last >= ProgressIntervalMs

\* if (Date.now() - lastProgressUpdate > 1000)
ProgressDue(t, last) == t - last > ProgressIntervalMs

NoProgress == [calls |-> 0, at |-> 0, nonce |-> 0]

PowNotStarted ==
    /\ powPc = "idle"
    /\ challengeDifficulty = NoHash
    /\ maxAttempts = [supplied |-> FALSE, value |-> 0]
    /\ nonce = 0
    /\ powHash = NoHash
    /\ powMatched = FALSE
    /\ hashes = 0
    /\ powResult = NoSolution
    /\ powNow = 0
    /\ lastProgressUpdate = 0
    /\ onProgress = FALSE
    /\ progress = NoProgress

\* solveChallenge({address, challenge, onProgress, maxAttempts}) is called
InitPow ==
    /\ powPc = "start"
    /\ challengeDifficulty \in HexStrings
    /\ maxAttempts \in MaxAttemptsValues
    /\ nonce = 0
    /\ powHash = NoHash
    /\ powMatched = FALSE
    /\ hashes = 0
    /\ powResult = NoSolution
    /\ powNow = 0
    /\ lastProgressUpdate = 0
    /\ onProgress \in BOOLEAN
    /\ progress = NoProgress

\* await ashMaize.init(challenge.no_pre_mine) settles after elapsed ms
PowInit(ok, elapsed) ==
    /\ powPc = "start"
    /\ powPc' = IF ok THEN "loop" ELSE "failed"
    /\ powNow' = powNow + elapsed
    /\ UNCHANGED <<challengeDifficulty, maxAttempts, nonce, powHash, powMatched, hashes, powResult, lastProgressUpdate, onProgress, progress>>
    /\ UNCHANGED nonPowVars

\* the head of the loop throws "Max attempts ... reached"
PowGiveUp ==
    /\ powPc = "loop"
    /\ GivesUp(maxAttempts, nonce)
    /\ powPc' = "exhausted"
    /\ UNCHANGED <<challengeDifficulty, maxAttempts, nonce, powHash, powMatched, hashes, powResult, powNow, lastProgressUpdate, onProgress, progress>>
    /\ UNCHANGED nonPowVars

\* one pass of the loop: ashMaize.hash(preimage) answers hash after elapsed
\* ms; without a match, nonce++ and the progress block, which calls
\* onProgress callLag ms after the Date.now() read of its test and reads
\* Date.now() for lastProgressUpdate lag ms after it (hashRate is left out)
PowAttempt(hash, elapsed, callLag, lag) ==
    /\ powPc = "loop"
    /\ ~GivesUp(maxAttempts, nonce)
    /\ nonce < MaxNonce
    /\ powHash' = hash
    /\ hashes' = hashes + 1
    /\ powMatched' = matchesDifficulty(hash, challengeDifficulty)
    /\ IF powMatched'
       THEN /\ powPc' = "found"
            /\ powResult' = [nonce |-> nonce, hash |-> hash, attempts |-> nonce]
            /\ nonce' = nonce
            /\ callLag = 0 /\ lag = 0
            /\ powNow' = powNow + elapsed
            /\ UNCHANGED <<lastProgressUpdate, progress>>
       ELSE /\ powPc' = "loop"
            /\ nonce' = nonce + 1
            /\ powResult' = powResult
            /\ IF ProgressDue(powNow + elapsed, lastProgressUpdate)
               THEN /\ callLag <= lag
                    /\ progress' = IF onProgress
                                   THEN [calls |-> progress.calls + 1,
                                         at |-> powNow + elapsed + callLag,
                                         nonce |-> nonce']
                                   ELSE progress
                    /\ powNow' = powNow + elapsed + lag
                    /\ lastProgressUpdate' = powNow'
               ELSE /\ callLag = 0 /\ lag = 0
                    /\ powNow' = powNow + elapsed
                    /\ UNCHANGED <<lastProgressUpdate, progress>>
    /\ UNCHANGED <<challengeDifficulty, maxAttempts, onProgress>>
    /\ UNCHANGED nonPowVars

NextPow ==
    \/ \E ok \in BOOLEAN : PowInit(ok, 0)
    \/ PowGiveUp
    \/ \E hash \in HexStrings, elapsed \in CoarseTimes : PowAttempt(hash, elapsed, 0, 0)

\* the same call where the timing is what is explored: one difficulty, one
\* hash that matches it and one that does not
ProgressHashes == {Hash00123456, Difficulty00FF0000}

InitProgress ==
    /\ InitPow
    /\ challengeDifficulty = Difficulty00FF0000

NextProgress ==
    \/ \E ok \in BOOLEAN, elapsed \in PassTimes : PowInit(ok, elapsed)
    \/ PowGiveUp
    \/ \E hash \in ProgressHashes, elapsed \in PassTimes, callLag \in ReadLags, lag \in ReadLags : PowAttempt(hash, elapsed, callLag, lag)

(***************************************************************************)
(* Redemption: ThawsService.getRedemptionWindowTimes,                      *)
(* FireblocksService.broadcastTransaction, FireblocksMidnightSDK.redeemNight *)
(***************************************************************************)
MaxGenesis == 2        \* largest genesis_timestamp, in seconds
MaxPeriod == 2         \* largest redemption_increment_period, in seconds
MaxIncrements == 2     \* largest redemption_increments
MaxThaws == 2          \* longest thaw schedule

MsPerSecond == 1000    \* Date.now() / 1000

\* PhaseConfigResponse, the fields the window is computed from
PhaseConfigs ==
    [genesis_timestamp : 1..MaxGenesis,
     redemption_increment_period : 1..MaxPeriod,
     redemption_increments : 1..MaxIncrements]
NoPhaseConfig ==
    [genesis_timestamp |-> 0, redemption_increment_period |-> 0,
     redemption_increments |-> 0]

\* what Date.now() can answer, in ms: every half second up to past the
\* latest window end
ClockReadings ==
    {(MsPerSecond \div 2) * k : k \in 0..(2 * (MaxGenesis + MaxPeriod * MaxIncrements) + 1)}
\* a second read right after a first: the same time or the next reading
LaterReadings(now1) == {now1, now1 + MsPerSecond \div 2}
NoClock == <<0, 0>>

NoWindowInfo ==
    [startTime |-> 0, endTime |-> 0, isOpen |-> FALSE, totalDurationSeconds |-> 0]

\* a window closed at its end: now < endTime
getRedemptionWindowTimesHalfOpen(config, now1, now2) ==
    LET startTime == config.genesis_timestamp
        totalDuration == config.redemption_increment_period * config.redemption_increments
        endTime == startTime + totalDuration
    IN [startTime |-> startTime * MsPerSecond,
        endTime |-> endTime * MsPerSecond,
        isOpen |-> now1 >= startTime * MsPerSecond /\ now2 < endTime * MsPerSecond,
        totalDurationSeconds |-> totalDuration]

\* getRedemptionWindowTimes(config); now1 and now2 are its two Date.now()
\* reads, in ms (Date.now() / 1000 >= s is now >= s * 1000); startTime and
\* endTime are the Dates' ms values
getRedemptionWindowTimes(config, now1, now2) ==
    LET startTime == config.genesis_timestamp
        totalDuration == config.redemption_increment_period * config.redemption_increments
        endTime == startTime + totalDuration
    IN [startTime |-> startTime * MsPerSecond,
        endTime |-> endTime * MsPerSecond,
        isOpen |-> now1 >= startTime * MsPerSecond /\ now2 <= endTime * MsPerSecond,
        totalDurationSeconds |-> totalDuration]

\* ThawStatusSchedule, the statuses the model draws schedules from
ThawStatuses == {"upcoming", "redeemable", "confirmed"}
ThawSchedules == UNION {[1..n -> ThawStatuses] : n \in 0..MaxThaws}

\* addressSchedule.thaws.filter(t => t.status === REDEEMABLE).length
RedeemableThaws(thaws) ==
    Cardinality({i \in DOMAIN thaws : thaws[i] = "redeemable"})

\* completedTx.signedMessages?.[0]: absent, or a record whose signature is
\* absent ("none"), lacks fullSig ("noFullSig") or is whole ("full")
SignedMessages ==
    [present : BOOLEAN, signature : {"none", "noFullSig", "full"}, publicKey : BOOLEAN]
SignatureData ==
    {m \in SignedMessages : ~m.present => (m.signature = "none" /\ ~m.publicKey)}

Unset == [kind |-> "unset", signature |-> "none", publicKey |-> FALSE]
Null == [kind |-> "null", signature |-> "none", publicKey |-> FALSE]

\* a broadcastTransaction that throws nothing and returns the record as it is
broadcastTransactionPassesOn(signatureData) ==
    [kind |-> "value", signature |-> signatureData.signature,
     publicKey |-> signatureData.publicKey]

\* broadcastTransaction after getTxStatus returned: the value it returns
broadcastTransaction(signatureData) ==
    IF signatureData.present /\ signatureData.signature # "none"
    THEN [kind |-> "value", signature |-> signatureData.signature,
          publicKey |-> signatureData.publicKey]
    ELSE Null

\* signRedemptionTransaction after broadcastTransaction returned: the message
\* of the error it throws, "none" when it returns a witness set
signRedemptionCheck(response) ==
    IF response.kind = "null" \/ response.signature # "full"
    THEN "Missing signature from Fireblocks"
    ELSE IF ~response.publicKey
         THEN "createWitnessSet"
         ELSE "none"

\* the text the catch block of a step puts in front of the error it
\* rethrows; "" where the failing code has no catch block of its own (the
\* project-id test and logRedemption) and redeemNight's catch alone wraps it
StepWrapper(step) ==
    CASE step = "address" -> "Failed to get address for vault account"
      [] step = "window" -> "Failed to validate redemption window"
      [] step = "thaws" -> "Failed to validate redeemable thaws"
      [] step = "utxo" -> "Failed to fetch and convert UTXO"
      [] step = "build" -> "Failed to build redemption transaction"
      [] step = "sign" -> "Failed to sign redemption transaction"
      [] step = "submit" -> "Failed to submit redemption transaction"
      [] OTHER -> ""

\* the error redeemNight rejects with: "Error in redeemNight: " followed by
\* the wrapper of the step, if it has one, and the message
RedError(step, message) ==
    [step |-> step, message |-> message, wrapper |-> StepWrapper(step)]
NoRedError == RedError("none", "none")
Step(step, ok) == [step |-> step, ok |-> ok]

\* a UTXO as Lucid lists it: where it is in the answer, and assets.lovelace,
\* which may be absent
Missing == -1
LucidUtxo(ref, lovelace) == [ref |-> ref, lovelace |-> lovelace]
NoUtxo == LucidUtxo(0, Missing)
RECURSIVE LucidUtxoLists(_)
LucidUtxoLists(n) ==
    IF n = 0 THEN {<< >>}
    ELSE LET shorter == LucidUtxoLists(n - 1)
         IN shorter \cup
            {Append(us, LucidUtxo(n, l)) : us \in {x \in shorter : Len(x) = n - 1},
                                          l \in {Missing} \cup 0..MaxLovelace}

\* what utxosAt does: it rejects, or it answers a list
UtxoAnswers ==
    {[rejects |-> TRUE, utxos |-> << >>]}
        \cup {[rejects |-> FALSE, utxos |-> us] : us \in LucidUtxoLists(MaxUtxos)}

\* utxo.assets.lovelace || 0n
LovelaceOrZero(u) == IF u.lovelace = Missing THEN 0 ELSE u.lovelace

\* the comparator of the sort: Number(bLovelace - aLovelace), whose sign is
\* that of the difference
CompareLovelaceDesc(a, b) == LovelaceOrZero(b) - LovelaceOrZero(a)

\* utxos.sort(comparator): a stable sort, by insertion from the back
RECURSIVE InsertUtxo(_, _)
InsertUtxo(u, sorted) ==
    IF sorted = << >> THEN <<u>>
    ELSE IF CompareLovelaceDesc(u, Head(sorted)) <= 0
         THEN <<u>> \o sorted
         ELSE <<Head(sorted)>> \o InsertUtxo(u, Tail(sorted))
RECURSIVE SortUtxos(_)
SortUtxos(us) ==
    IF us = << >> THEN << >> ELSE InsertUtxo(Head(us), SortUtxos(Tail(us)))

\* a choice that takes the first UTXO listed
selectFirstUtxo(us) == us[1]

\* selectLargestUtxo(utxos)
selectLargestUtxo(us) == SortUtxos(us)[1]

\* const buildRequest = {change_address, funding_utxos, collateral_utxos}
BuildRequest(funding) == [sent |-> TRUE, funding_utxos |-> funding, collateral_utxos |-> << >>]
NoBuildRequest == [sent |-> FALSE, funding_utxos |-> << >>, collateral_utxos |-> << >>]

RedNotStarted ==
    /\ redPc = "idle"
    /\ redLog = << >>
    /\ phaseConfig = NoPhaseConfig
    /\ clock = NoClock
    /\ windowInfo = NoWindowInfo
    /\ fbResponse = Unset
    /\ addressUtxos = << >>
    /\ utxoHex = NoUtxo
    /\ buildRequest = NoBuildRequest
    /\ redError = NoRedError

InitRedeem ==
    /\ redPc = "start"
    /\ redLog = << >>
    /\ phaseConfig = NoPhaseConfig
    /\ clock = NoClock
    /\ windowInfo = NoWindowInfo
    /\ fbResponse = Unset
    /\ addressUtxos = << >>
    /\ utxoHex = NoUtxo
    /\ buildRequest = NoBuildRequest
    /\ redError = NoRedError

redLocals == <<phaseConfig, clock, windowInfo, fbResponse, addressUtxos, utxoHex, buildRequest>>
redOthers == <<poolVars, selVars, powVars, trVars>>

\* a step that goes on whether or not its call succeeded
RedStepGoesOn(from, step, ok, to, message) ==
    /\ redPc = from
    /\ redLog' = Append(redLog, Step(step, ok))
    /\ redPc' = to
    /\ redError' = redError

\* one step of redeemNight that awaits one call and either goes on or throws
RedStep(from, step, ok, to, message) ==
    /\ redPc = from
    /\ redLog' = Append(redLog, Step(step, ok))
    /\ IF ok
       THEN redPc' = to /\ redError' = redError
       ELSE redPc' = "failed" /\ redError' = RedError(step, message)

\* if (!this.blockfrostProjectId) throw
RedeemNight(blockfrostProjectId) ==
    /\ redPc = "start"
    /\ IF blockfrostProjectId
       THEN redPc' = "address" /\ redError' = redError
       ELSE /\ redPc' = "failed"
            /\ redError' = RedError("config", "Blockfrost project ID is required for redemption")
    /\ UNCHANGED <<redLog, redLocals, txVars, redOthers>>

\* await this.fireblocksService.getVaultAccountAddress(...)
GetVaultAccountAddress(ok) ==
    /\ RedStep("address", "address", ok, "window", "getVaultAccountAddress")
    /\ UNCHANGED <<redLocals, txVars, redOthers>>

\* validateRedemptionWindow: getPhaseConfig rejects
GetPhaseConfigThrows ==
    /\ RedStep("window", "window", FALSE, "window", "getPhaseConfig")
    /\ UNCHANGED <<redLocals, txVars, redOthers>>

\* validateRedemptionWindow: getPhaseConfig answers, the window is computed
GetRedemptionWindowTimes(config, now1, now2) ==
    /\ redPc = "window"
    /\ redPc' = "windowComputed"
    /\ phaseConfig' = config
    /\ clock' = <<now1, now2>>
    /\ windowInfo' = getRedemptionWindowTimes(config, now1, now2)
    /\ UNCHANGED <<redLog, fbResponse, addressUtxos, utxoHex, buildRequest, redError, txVars, redOthers>>

\* validateRedemptionWindow: if (!windowInfo.isOpen) throw; its locals end
ValidateRedemptionWindow ==
    /\ RedStep("windowComputed", "window", windowInfo.isOpen, "thaws", "Redemption window is not open")
    /\ phaseConfig' = NoPhaseConfig
    /\ clock' = NoClock
    /\ windowInfo' = NoWindowInfo
    /\ UNCHANGED <<fbResponse, addressUtxos, utxoHex, buildRequest, txVars, redOthers>>

\* validateRedeemableThaws: getThawSchedule rejects
GetThawScheduleThrows ==
    /\ RedStep("thaws", "thaws", FALSE, "thaws", "getThawSchedule")
    /\ UNCHANGED <<redLocals, txVars, redOthers>>

\* validateRedeemableThaws: if (redeemableThaws.length === 0) throw
ValidateRedeemableThaws(thaws) ==
    /\ RedStep("thaws", "thaws", RedeemableThaws(thaws) # 0, "utxo", "No redeemable thaws available")
    /\ UNCHANGED <<redLocals, txVars, redOthers>>

\* fetchAndConvertUtxo: utxosAt (or initializeLucid before it) rejects, or
\* it answers a list, of which the largest UTXO is returned
FetchAndConvertUtxo(answer) ==
    /\ RedStep("utxo", "utxo", ~answer.rejects /\ answer.utxos # << >>, "build",
               IF answer.rejects THEN "utxosAt" ELSE "No UTXOs found")
    /\ addressUtxos' = answer.utxos
    /\ utxoHex' = IF answer.utxos # << >> THEN selectLargestUtxo(answer.utxos) ELSE utxoHex
    /\ UNCHANGED <<phaseConfig, clock, windowInfo, fbResponse, buildRequest, txVars, redOthers>>

\* buildRedemptionTransaction sends its request to buildThawTransaction
BuildRedemptionTransaction ==
    /\ redPc = "build"
    /\ redPc' = "building"
    /\ buildRequest' = BuildRequest(<<utxoHex>>)
    /\ UNCHANGED <<redLog, phaseConfig, clock, windowInfo, fbResponse, addressUtxos, utxoHex, redError, txVars, redOthers>>

\* buildThawTransaction settles; the locals of the two steps end
BuildThawTransactionSettles(ok) ==
    /\ RedStep("building", "build", ok, "sign", "buildThawTransaction")
    /\ addressUtxos' = << >>
    /\ utxoHex' = NoUtxo
    /\ buildRequest' = NoBuildRequest
    /\ UNCHANGED <<phaseConfig, clock, windowInfo, fbResponse, txVars, redOthers>>

\* signRedemptionTransaction enters broadcastTransaction: createTransaction
\* rejects ("throws"), answers without an id ("noId") or with one ("ok"),
\* and then getTxStatus starts
BroadcastCreate(outcome) ==
    /\ redPc = "sign"
    /\ IF outcome = "ok"
       THEN /\ redLog' = Append(redLog, Step("createTransaction", TRUE))
            /\ redPc' = "signing"
            /\ redError' = redError
            /\ txPc' = "start"
       ELSE /\ redLog' = IF outcome = "noId"
                         THEN redLog \o <<Step("createTransaction", TRUE), Step("sign", FALSE)>>
                         ELSE Append(redLog, Step("createTransaction", FALSE))
            /\ redPc' = "failed"
            /\ redError' = RedError("sign", IF outcome = "noId" THEN "Transaction ID is undefined." ELSE "createTransaction")
            /\ txPc' = txPc
    /\ UNCHANGED <<txObserved, txResponse, lastStatus, txLog, txError>>
    /\ UNCHANGED <<redLocals, redOthers>>

\* getTxStatus threw: broadcastTransaction logs and rethrows, and so does
\* signRedemptionTransaction
BroadcastStatusThrows ==
    /\ txPc = "failed"
    /\ RedStep("signing", "sign", FALSE, "signing", "getTxStatus")
    /\ UNCHANGED <<redLocals, txVars, redOthers>>

\* getTxStatus returned: broadcastTransaction returns, and
\* signRedemptionTransaction checks what it got and builds the witness set
SignRedemptionTransaction(signatureData) ==
    /\ txPc = "returned"
    /\ fbResponse' = broadcastTransaction(signatureData)
    /\ RedStep("signing", "sign", signRedemptionCheck(fbResponse') = "none", "submit", signRedemptionCheck(fbResponse'))
    /\ UNCHANGED <<phaseConfig, clock, windowInfo, addressUtxos, utxoHex, buildRequest, txVars, redOthers>>

\* submitRedemptionTransaction
SubmitRedemptionTransaction(ok) ==
    /\ RedStep("submit", "submit", ok, "audit", "submitThawTransaction")
    /\ UNCHANGED <<redLocals, txVars, redOthers>>

\* logRedemption: logger.appendData, then return submitResponse
LogRedemption(ok) ==
    /\ RedStep("audit", "audit", ok, "returned", "appendData")
    /\ UNCHANGED <<redLocals, txVars, redOthers>>

NextRedeem ==
    \/ \E b \in BOOLEAN : RedeemNight(b)
    \/ \E ok \in BOOLEAN : GetVaultAccountAddress(ok)
    \/ GetPhaseConfigThrows
    \/ \E config \in PhaseConfigs, now1 \in ClockReadings : \E now2 \in LaterReadings(now1) : GetRedemptionWindowTimes(config, now1, now2)
    \/ ValidateRedemptionWindow
    \/ GetThawScheduleThrows
    \/ \E thaws \in ThawSchedules : ValidateRedeemableThaws(thaws)
    \/ \E answer \in UtxoAnswers : FetchAndConvertUtxo(answer)
    \/ BuildRedemptionTransaction
    \/ \E ok \in BOOLEAN : BuildThawTransactionSettles(ok)
    \/ \E outcome \in {"throws", "noId", "ok"} : BroadcastCreate(outcome)
    \/ BroadcastStatusThrows
    \/ \E signatureData \in SignatureData : SignRedemptionTransaction(signatureData)
    \/ \E ok \in BOOLEAN : SubmitRedemptionTransaction(ok)
    \/ \E ok \in BOOLEAN : LogRedemption(ok)
    \/ NextTx

(***************************************************************************)
(* Transfer: FireblocksMidnightSDK.transferClaims, buildTransferTransaction *)
(* and the utility createTransactionOutputs                                *)
(***************************************************************************)
\* integer subtraction, as BigInt - BigInt
ExactSub(a, b) == Quantity(a.big - b.big, a.small - b.small)

\* one transaction output: its address, its lovelace, and its entry for the
\* token unit if it has one
Output(address, lovelace, hasToken, token) ==
    [address |-> address, lovelace |-> lovelace, hasToken |-> hasToken, token |-> token]
NoOutputs == << >>

\* "Sum ADA + tokens": the BigInt totals over the selected UTXOs
RECURSIVE TotalLovelace(_, _)
TotalLovelace(selectedUtxos, us) ==
    IF selectedUtxos = << >> THEN 0
    ELSE us[Head(selectedUtxos)].lovelace + TotalLovelace(Tail(selectedUtxos), us)
RECURSIVE TotalTokenAmount(_, _)
TotalTokenAmount(selectedUtxos, us) ==
    IF selectedUtxos = << >> THEN Zero
    ELSE ExactAdd(us[Head(selectedUtxos)].token, TotalTokenAmount(Tail(selectedUtxos), us))

\* an output construction without the test of the token total
createTransactionOutputsUnchecked(requiredLovelace, fee, transferAmount, selectedUtxos, us) ==
    LET totalLovelace == TotalLovelace(selectedUtxos, us)
        totalTokenAmount == TotalTokenAmount(selectedUtxos, us)
        changeLovelace == totalLovelace - requiredLovelace - fee
        changeTokenAmount == ExactSub(totalTokenAmount, transferAmount)
    IN [thrown |-> FALSE,
        outputs |-> <<Output("recipient", requiredLovelace, TRUE, transferAmount),
                      IF NumLess(Zero, changeTokenAmount)
                      THEN Output("sender", changeLovelace, TRUE, changeTokenAmount)
                      ELSE Output("sender", changeLovelace, FALSE, Zero)>>]

\* createTransactionOutputs(requiredLovelace, fee, ..., transferAmount,
\* selectedUtxos): [thrown, outputs]
createTransactionOutputs(requiredLovelace, fee, transferAmount, selectedUtxos, us) ==
    LET totalLovelace == TotalLovelace(selectedUtxos, us)
        totalTokenAmount == TotalTokenAmount(selectedUtxos, us)
        changeLovelace == totalLovelace - requiredLovelace - fee
        changeTokenAmount == ExactSub(totalTokenAmount, transferAmount)
    IN IF NumLess(totalTokenAmount, transferAmount)
       THEN [thrown |-> TRUE, outputs |-> NoOutputs]
       ELSE [thrown |-> FALSE,
             outputs |-> <<Output("recipient", requiredLovelace, TRUE, transferAmount),
                           IF NumLess(Zero, changeTokenAmount)
                           THEN Output("sender", changeLovelace, TRUE, changeTokenAmount)
                           ELSE Output("sender", changeLovelace, FALSE, Zero)>>]

\* buildTransferTransaction: the two payToAddress calls
buildTransferTransaction(requiredTokenAmount, minRecipientLovelace, transactionFee, accumulatedAda, accumulatedTokenAmount) ==
    LET adaTarget == minRecipientLovelace + transactionFee
    IN <<Output("recipient", minRecipientLovelace, TRUE, requiredTokenAmount),
         Output("sender", accumulatedAda - adaTarget, TRUE,
                ExactSub(accumulatedTokenAmount, requiredTokenAmount))>>

\* signTransferTransaction after broadcastTransaction returned: the message of
\* the error it throws, "none" when it returns a witness set
signTransferCheck(response) ==
    IF response.kind = "null" \/ ~response.publicKey \/ response.signature # "full"
    THEN "Missing publicKey or signature from Fireblocks"
    ELSE "none"

\* catch (error) { throw new Error(`Error in transferClaims: ${error instanceof
\* Error ? error.message : JSON.stringify(error)}`) }: an Error keeps its
\* message, a thrown object keeps every field
TransferError(step, e) ==
    [step |-> step,
     detail |-> IF e.code = "INSUFFICIENT_BALANCE" THEN e ELSE PlainError(e.code)]
NoTransferError == [step |-> "none", detail |-> NoError]

TrNotStarted ==
    /\ trPc = "idle"
    /\ trLog = << >>
    /\ txOutputs = NoOutputs
    /\ outputs = NoOutputs
    /\ outputsError = "none"
    /\ trError = NoTransferError

\* the UTXO lists and arguments a transfer is followed with: every quantity
\* below 2^53
TransferUtxoLists == {us \in UtxoLists : \A i \in DOMAIN us : us[i].token.big = 0}
TransferInputs == {input \in SelInputs : input.requiredTokenAmount.big = 0}

\* a call of transferClaims: some UTXO list at the address, some arguments
InitTransfer ==
    /\ trPc = "start"
    /\ trLog = << >>
    /\ txOutputs = NoOutputs
    /\ outputs = NoOutputs
    /\ outputsError = "none"
    /\ trError = NoTransferError
    /\ utxos \in TransferUtxoLists
    /\ selInput \in TransferInputs
    /\ selPc = "idle"
    /\ selResult = NoResult
    /\ selError = NoError

trOthers == <<poolVars, txVars, powVars, redVars>>

\* validateBlockfrostConfig and initializeLucid, then fetchAndValidateUtxos
\* is entered
TransferClaims(configured) ==
    /\ trPc = "start"
    /\ IF configured
       THEN /\ trPc' = "select"
            /\ selPc' = "start"
            /\ trError' = trError
       ELSE /\ trPc' = "failed"
            /\ selPc' = selPc
            /\ trError' = TransferError("config", PlainError("BLOCKFROST_PROJECT_ID is not configured"))
    /\ UNCHANGED <<trLog, txOutputs, outputs, outputsError, utxos, selInput, selResult, selError, trOthers>>

\* fetchAndValidateUtxos threw: transferClaims wraps and rethrows
FetchAndValidateThrows ==
    /\ trPc = "select"
    /\ selPc = "failed"
    /\ trPc' = "failed"
    /\ trLog' = Append(trLog, Step("validate", FALSE))
    /\ trError' = TransferError("validate", selError)
    /\ UNCHANGED <<txOutputs, outputs, outputsError, selVars, trOthers>>

\* a build step that does not wait for the validation
BuildTransferTransactionUnvalidated(ok) ==
    /\ trPc = "select"
    /\ selPc \in {"returned", "failed"}
    /\ txOutputs' = buildTransferTransaction(selInput.requiredTokenAmount,
                        selInput.minRecipientLovelace, selInput.transactionFee,
                        selResult.accumulatedAda, selResult.accumulatedTokenAmount)
    /\ trLog' = trLog \o <<Step("validate", TRUE), Step("build", ok)>>
    /\ IF ok
       THEN trPc' = "sign" /\ trError' = trError
       ELSE trPc' = "failed" /\ trError' = TransferError("build", PlainError("build"))
    /\ UNCHANGED <<outputs, outputsError, selVars, trOthers>>

\* fetchAndValidateUtxos returned: convertUtxosForLucid, then
\* buildTransferTransaction; calculateTtl or tx.complete() may reject (~ok)
BuildTransferTransaction(ok) ==
    /\ trPc = "select"
    /\ selPc = "returned"
    /\ txOutputs' = buildTransferTransaction(selInput.requiredTokenAmount,
                        selInput.minRecipientLovelace, selInput.transactionFee,
                        selResult.accumulatedAda, selResult.accumulatedTokenAmount)
    /\ trLog' = trLog \o <<Step("validate", TRUE), Step("build", ok)>>
    /\ IF ok
       THEN trPc' = "sign" /\ trError' = trError
       ELSE trPc' = "failed" /\ trError' = TransferError("build", PlainError("build"))
    /\ UNCHANGED <<outputs, outputsError, selVars, trOthers>>

\* signTransferTransaction: broadcastTransaction creates the signing request
\* and throws (~answered) or returns what it makes of signatureData; the step
\* then checks what it got
SignTransferTransaction(answered, signatureData) ==
    /\ trPc = "sign"
    /\ LET message == IF answered
                      THEN signTransferCheck(broadcastTransaction(signatureData))
                      ELSE "broadcastTransaction"
       IN /\ trLog' = trLog \o <<Step("createTransaction", TRUE), Step("sign", message = "none")>>
          /\ IF message = "none"
             THEN trPc' = "submit" /\ trError' = trError
             ELSE trPc' = "failed" /\ trError' = TransferError("sign", PlainError(message))
    /\ UNCHANGED <<txOutputs, outputs, outputsError, selVars, trOthers>>

\* assembleAndSubmitTransaction, then transferClaims returns
AssembleAndSubmitTransaction(ok) ==
    /\ trPc = "submit"
    /\ trLog' = Append(trLog, Step("submit", ok))
    /\ IF ok
       THEN trPc' = "returned" /\ trError' = trError
       ELSE trPc' = "failed" /\ trError' = TransferError("submit", PlainError("submitTx"))
    /\ UNCHANGED <<txOutputs, outputs, outputsError, selVars, trOthers>>

\* a user of the utilities hands what fetchAndSelectUtxos returned, validated
\* or not, to createTransactionOutputs, which returns the outputs or throws
CreateTransactionOutputs ==
    /\ selPc \in {"selected", "returned"}
    /\ outputs = NoOutputs
    /\ outputsError = "none"
    /\ LET r == createTransactionOutputs(selInput.minRecipientLovelace,
                    selInput.transactionFee, selInput.requiredTokenAmount,
                    selResult.selectedUtxos, utxos)
       IN /\ outputs' = r.outputs
          /\ outputsError' = IF r.thrown THEN "Insufficient tokens" ELSE "none"
    /\ UNCHANGED <<trPc, trLog, txOutputs, trError, selVars, trOthers>>

NextTransfer ==
    \/ \E configured \in BOOLEAN : TransferClaims(configured)
    \/ FetchAndValidateThrows
    \/ \E ok \in BOOLEAN : BuildTransferTransaction(ok)
    \/ \E answered \in BOOLEAN, signatureData \in SignatureData : SignTransferTransaction(answered, signatureData)
    \/ \E ok \in BOOLEAN : AssembleAndSubmitTransaction(ok)
    \/ CreateTransactionOutputs
    \/ NextSelect

(***************************************************************************)
(* Specifications: one per component, the other components at rest         *)
(***************************************************************************)
InitSpecPool == InitPool /\ TxNotStarted /\ SelNotStarted /\ PowNotStarted /\ RedNotStarted /\ TrNotStarted
SpecPool == InitSpecPool /\ [][NextPool]_vars

InitSpecTx == InitTx /\ InitPool /\ SelNotStarted /\ PowNotStarted /\ RedNotStarted /\ TrNotStarted
SpecTx == InitSpecTx /\ [][NextTx]_vars

\* the timer of the sleep fires and every awaited query settles
InitSpecTxFair == InitTx /\ InitPool /\ SelNotStarted /\ PowNotStarted /\ RedNotStarted /\ TrNotStarted
SpecTxFair == InitSpecTxFair /\ [][NextTxOn]_vars /\ WF_vars(TxSleepOn) /\ WF_vars(TxQuerySettles)

InitSpecSelect == InitSelect /\ InitPool /\ TxNotStarted /\ PowNotStarted /\ RedNotStarted /\ TrNotStarted
SpecSelect == InitSpecSelect /\ [][NextSelect]_vars

InitSpecPhase2 == InitPhase2 /\ InitPool /\ TxNotStarted /\ PowNotStarted /\ RedNotStarted /\ TrNotStarted
SpecPhase2 == InitSpecPhase2 /\ [][NextSelect]_vars

InitSpecPow == InitPow /\ InitPool /\ TxNotStarted /\ SelNotStarted /\ RedNotStarted /\ TrNotStarted
SpecPow == InitSpecPow /\ [][NextPow]_vars

InitSpecProgress == InitProgress /\ InitPool /\ TxNotStarted /\ SelNotStarted /\ RedNotStarted /\ TrNotStarted
SpecProgress == InitSpecProgress /\ [][NextProgress]_vars

InitSpecRedeem == InitRedeem /\ InitPool /\ TxNotStarted /\ SelNotStarted /\ PowNotStarted /\ TrNotStarted
SpecRedeem == InitSpecRedeem /\ [][NextRedeem]_vars

InitSpecTransfer == InitTransfer /\ InitPool /\ TxNotStarted /\ PowNotStarted /\ RedNotStarted
SpecTransfer == InitSpecTransfer /\ [][NextTransfer]_vars

(***************************************************************************)
(* Claims about getTxStatus (checked under SpecTx)                         *)
(***************************************************************************)

\* C3: once a status query has returned a terminal status (Completed,
\* Broadcasting, Blocked, Cancelled, Failed or Rejected), getTxStatus
\* issues no further status query, the first query included.
C3_NoPollPastTerminal ==
    [][Len(txObserved') > Len(txObserved) =>
          \A i \in DOMAIN txObserved :
             txObserved[i] \notin SuccessStates \cup FailureStates]_vars

\* a status query has just answered
TxAnswered == Len(txObserved') > Len(txObserved)

\* C13: getTxStatus returns only when the last status it observed is
\* Completed or Broadcasting; on a transient status (Submitted, Queued,
\* PendingSignature, PendingAuthorization, Pending3rdParty,
\* Pending3rdPartyManualApproval) it neither returns nor fails: it sleeps
\* the polling interval and queries again.
C13_ReturnsOnlyOnSuccess ==
    [][/\ txPc' = "returned" =>
              /\ txObserved' # << >>
              /\ txObserved'[Len(txObserved')] \in SuccessStates
              /\ txResponse'.status = txObserved'[Len(txObserved')]
       /\ (TxAnswered /\ txResponse'.status \in TransientStates) =>
              txPc' = "sleep"
       /\ (txPc = "sleep" /\ txPc' # "sleep") => txPc' = "poll"]_vars

C13_Witness ==
    /\ txPc = "returned"
    /\ Len(txObserved) >= 2
    /\ txObserved[1] \in TransientStates

\* C14: when a status query returns Blocked, Cancelled, Failed or Rejected,
\* getTxStatus fails at once with an error carrying that status and the
\* sub-status of the same response; no further query is made and nothing is
\* returned.
C14_FailureStatusFails ==
    [][(TxAnswered /\ txResponse'.status \in FailureStates) =>
          /\ txPc' = "failed"
          /\ txError' = [status |-> txResponse'.status,
                         subStatus |-> txResponse'.subStatus]]_vars

\* the call is over
TxDone == txPc \in {"returned", "failed"}

\* the latest answer carries a terminal status
TerminalReported == txResponse.status \in SuccessStates \cup FailureStates

\* C26: getTxStatus puts no bound on its polls: it returns or fails only on
\* a query that reports a terminal status (or that rejects, leaving the last
\* answer as it was), so while the
\* service reports transient statuses it goes on polling; and once the
\* service has reported a terminal status the call eventually returns or
\* fails.
C26_EndsOnceTerminalReported ==
    /\ [][(~TxDone /\ TxDone') =>
             (TerminalReported' \/ txResponse' = txResponse)]_vars
    /\ (TerminalReported ~> TxDone)

(***************************************************************************)
(* Claims about UTXO selection (checked under SpecSelect)                  *)
(***************************************************************************)
RECURSIVE SumLovelace(_, _)
SumLovelace(S, us) ==
    IF S = {} THEN 0
    ELSE LET i == CHOOSE j \in S : TRUE
         IN us[i].lovelace + SumLovelace(S \ {i}, us)

RECURSIVE SumToken(_, _)
SumToken(S, us) ==
    IF S = {} THEN Zero
    ELSE LET i == CHOOSE j \in S : TRUE
         IN ExactAdd(us[i].token, SumToken(S \ {i}, us))

FullAdaTarget ==
    selInput.minRecipientLovelace + selInput.transactionFee
        + selInput.minChangeLovelace

\* some set of the address's UTXOs reaches both targets
SomeSubsetSuffices ==
    \E S \in SUBSET DOMAIN utxos :
        /\ ~NumLess(SumToken(S, utxos), selInput.requiredTokenAmount)
        /\ SumLovelace(S, utxos) >= FullAdaTarget

\* the selection step has ended, the provider having answered
SelectionEnded ==
    selPc \in {"returned", "failed"} /\ selError.code # "FETCH"

ResultSuffices ==
    /\ ~NumLess(selResult.accumulatedTokenAmount, selInput.requiredTokenAmount)
    /\ selResult.accumulatedAda >= FullAdaTarget

\* C4: when no set of UTXOs at the address reaches requiredTokenAmount and
\* recipientMinimum + fee + changeMinimum, the selection step fails with the
\* insufficient-balance error carrying the shortfall; and it never returns a
\* result below requiredTokenAmount or below
\* recipientMinimum + fee + changeMinimum.
C4_InsufficientFailsExplicitly ==
    /\ (SelectionEnded /\ ~SomeSubsetSuffices) =>
          /\ selPc = "failed"
          /\ selError.code = "INSUFFICIENT_BALANCE"
          /\ selError.requiredTokenAmount = selInput.requiredTokenAmount
          /\ selError.accumulatedTokenAmount = selResult.accumulatedTokenAmount
          /\ selError.accumulatedAda = selResult.accumulatedAda
    /\ selPc = "returned" => ResultSuffices

\* C5: when some set of UTXOs at the address has a token total of at least
\* requiredTokenAmount and a lovelace total of at least
\* recipientMinimum + fee + changeMinimum, selection returns a result with
\* accumulatedToken >= requiredTokenAmount and
\* accumulatedBaseAsset >= recipientMinimum + fee + changeMinimum.
C5_SufficientSelects ==
    (SelectionEnded /\ SomeSubsetSuffices) =>
        (selPc = "returned" /\ ResultSuffices)

(***************************************************************************)
(* Claims about the proof of work (checked under SpecPow)                  *)
(***************************************************************************)

\* C9: for the 32-bit values hashBits and difficultyBits of the first 8 hex
\* digits of the hash and of the difficulty, matchesDifficulty returns true
\* if and only if (hashBits OR difficultyBits) = difficultyBits.
C9_MatchesIffOrEqual ==
    hashes > 0 =>
        (powMatched <=>
            UnsignedOr(ParseHex(Substring(powHash, PrefixLen)),
                       ParseHex(Substring(challengeDifficulty, PrefixLen)))
                = ParseHex(Substring(challengeDifficulty, PrefixLen)))

\* C10: with maxAttempts = N supplied, solveChallenge computes at most N
\* hashes, and once the nonces 0..N-1 have been tried without a match its
\* next step is the max-attempts error, never another hash.
C10_AttemptsBounded ==
    [][maxAttempts.supplied =>
          /\ hashes' <= maxAttempts.value
          /\ (powPc = "loop" /\ nonce >= maxAttempts.value) => powPc' = "exhausted"]_vars

\* the mask rule on the unsigned 32-bit values of the two prefixes
MaskSatisfied(hash, difficulty) ==
    UnsignedOr(ParseHex(Substring(hash, PrefixLen)),
               ParseHex(Substring(difficulty, PrefixLen)))
        = ParseHex(Substring(difficulty, PrefixLen))

\* C21: solveChallenge tries the nonces 0, 1, 2, ... in increasing order and
\* hashes each exactly once (the nonce hashed is the number of hashes
\* computed before), and it returns the smallest nonce whose hash matches
\* the difficulty: a pass ends the search with its nonce exactly when its
\* hash satisfies the difficulty mask, so no nonce is skipped and none is
\* returned without a match.
C21_SmallestMatchingNonce ==
    [][hashes' = hashes + 1 =>
          /\ nonce = hashes
          /\ MaskSatisfied(powHash', challengeDifficulty)
                <=> (powPc' = "found" /\ powResult'.nonce = nonce)]_vars

\* C22: with difficulty 00FF0000..., matchesDifficulty accepts the hash
\* 00123456... and rejects the hash FF123456....
C22_ExampleCase ==
    (hashes > 0 /\ challengeDifficulty = Difficulty00FF0000) =>
        /\ powHash = Hash00123456 => powMatched
        /\ powHash = HashFF123456 => ~powMatched

\* C23: the attempts field of a solution solveChallenge returns is the
\* number of hashes computed during that solve.
C23_AttemptsCountsHashes ==
    powPc = "found" => powResult.attempts = hashes

(***************************************************************************)
(* Claims about the progress callback (checked under SpecProgress)         *)
(***************************************************************************)

\* C27: during one solveChallenge run any two consecutive onProgress calls
\* are more than 1000 ms apart, and each call receives the number of nonces
\* tried so far.
C27_ProgressAtMostOncePerSecond ==
    [][progress'.calls # progress.calls =>
          /\ progress'.calls = progress.calls + 1
          /\ progress'.nonce = hashes'
          /\ progress.calls > 0 => progress'.at - progress.at > ProgressIntervalMs]_vars

C27_Witness == progress.calls >= 2 /\ progress.nonce = hashes /\ powPc = "loop"

(***************************************************************************)
(* Claims about redemption (checked under SpecRedeem)                      *)
(***************************************************************************)
\* the window of the configuration in hand, in ms
WindowStart == phaseConfig.genesis_timestamp * MsPerSecond
WindowEnd ==
    (phaseConfig.genesis_timestamp
       + phaseConfig.redemption_increment_period * phaseConfig.redemption_increments) * MsPerSecond
\* getRedemptionWindowTimes has answered and both its clock reads gave one time
WindowComputedAt(t) == redPc = "windowComputed" /\ clock = <<t, t>>

\* C11 as stated: isOpen is true only inside the half-open interval from T to
\* T + P*N: true at now = T, false before T, false at now = T + P*N and later.
C11_HalfOpenWindow ==
    \A t \in ClockReadings : WindowComputedAt(t) =>
        (windowInfo.isOpen <=> (WindowStart <= t /\ t < WindowEnd))

\* C11, amended: isOpen is true only inside the closed interval from T to
\* T + P*N: for a call whose clock reads both give now, it is true at now = T
\* and at now = T + P*N, false at every now < T and at every now later than
\* T + P*N; whatever the two reads, isOpen needs the first at or after T and
\* the second at or before T + P*N.
C11_ClosedWindow ==
    /\ \A t \in ClockReadings : WindowComputedAt(t) =>
           (windowInfo.isOpen <=> (WindowStart <= t /\ t <= WindowEnd))
    /\ (redPc = "windowComputed" /\ windowInfo.isOpen) =>
           (WindowStart <= clock[1] /\ clock[2] <= WindowEnd)

C11_Witness == WindowComputedAt(WindowEnd) /\ windowInfo.isOpen

\* the order in which redeemNight records its steps
StepOrder ==
    <<"address", "window", "thaws", "utxo", "build", "createTransaction", "sign", "submit", "audit">>
\* the step the log records as done and successful
StepDone(log, step) == \E i \in DOMAIN log : log[i].step = step /\ log[i].ok
\* the step that this transition records
Recorded(step, ok) ==
    /\ Len(redLog') > Len(redLog)
    /\ redLog'[Len(redLog')] = Step(step, ok)

\* C12: redeemNight runs window check, thaw-schedule check, UTXO fetch, build,
\* sign, submit, audit in that order; a step starts only after the previous one
\* succeeded and none runs after a failure; the signing request is created only
\* with the window found open and a redeemable thaw found, and the submission
\* is made only with a whole signature in hand.
C12_StepsInOrder ==
    [][/\ Len(redLog') <= Len(StepOrder)
       /\ \A i \in DOMAIN redLog' :
             /\ redLog'[i].step = StepOrder[i]
             /\ i < Len(redLog') => redLog'[i].ok
       /\ (redLog' # << >> /\ ~redLog'[Len(redLog')].ok) => redPc' = "failed"
       /\ StepDone(redLog', "createTransaction") =>
             (StepDone(redLog', "window") /\ StepDone(redLog', "thaws"))
       /\ StepDone(redLog', "submit") =>
             (StepDone(redLog', "sign") /\ fbResponse'.signature = "full")
       /\ redPc = "failed" => redLog' = redLog
       /\ Recorded("window", TRUE) => windowInfo.isOpen
       /\ \A thaws \in ThawSchedules :
             (ValidateRedeemableThaws(thaws) /\ Recorded("thaws", TRUE)) =>
                 \E i \in DOMAIN thaws : thaws[i] = "redeemable"
       /\ Recorded("sign", TRUE) => (txPc = "returned" /\ fbResponse'.signature = "full")]_vars

C12_Witness == redPc = "returned" /\ Len(redLog) = Len(StepOrder)

\* getTxStatus has returned and the response carries no signed-message record
NoSignedMessage(signatureData) ==
    SignRedemptionTransaction(signatureData) /\ ~signatureData.present

\* C15 as stated: when the signing operation ends in Completed or Broadcasting
\* without a signed-message record, it throws a 'signature missing' error and
\* returns no value to its caller.
C15_MissingSignatureThrows ==
    [][\A signatureData \in SignatureData : NoSignedMessage(signatureData) =>
          (fbResponse' = Unset /\ redPc' = "failed")]_vars

\* C15, amended: in that case broadcastTransaction returns null to its caller
\* instead of throwing, and the redemption's signing step, finding no signature
\* in what it got, fails with the 'Missing signature' error; no witness set
\* is built and nothing is submitted.
C15_NullThenMissingSignature ==
    [][\A signatureData \in SignatureData : NoSignedMessage(signatureData) =>
          /\ fbResponse' = Null
          /\ redPc' = "failed"
          /\ redError' = RedError("sign", "Missing signature from Fireblocks")
          /\ Recorded("sign", FALSE)]_vars

C15_Witness ==
    /\ txPc = "returned"
    /\ fbResponse = Null
    /\ redError = RedError("sign", "Missing signature from Fireblocks")

\* the steps of redeemNight that can fail
FailingSteps == {"address", "window", "thaws", "utxo", "build", "sign", "submit", "audit"}

\* C28: a failure of any step of redeemNight reaches the caller with a text
\* of that step in front of it, and that text is of no other step: window
\* closed, no redeemable thaw, build failed, signing failed and submit failed
\* can be told apart, and no step fails without such a text.
C28_FailureNamesItsStep ==
    (redPc = "failed" /\ redError.step \in FailingSteps) =>
        /\ redError.wrapper # ""
        /\ \A other \in FailingSteps \ {redError.step} :
              StepWrapper(other) # redError.wrapper

\* C29: the build request of a redemption carries exactly one funding UTXO,
\* one of those listed at the address, and none of those has more lovelace;
\* fetchAndConvertUtxo goes on to the build only with a UTXO in hand, so a
\* request is sent only when the address has one.
C29_FundingIsLargestUtxo ==
    [][/\ (~buildRequest.sent /\ buildRequest'.sent) =>
             /\ Len(buildRequest'.funding_utxos) = 1
             /\ \E i \in DOMAIN addressUtxos :
                   addressUtxos[i] = buildRequest'.funding_utxos[1]
             /\ \A i \in DOMAIN addressUtxos :
                   LovelaceOrZero(addressUtxos[i])
                       <= LovelaceOrZero(buildRequest'.funding_utxos[1])
       /\ (redPc = "utxo" /\ redPc' # "utxo") =>
             (redPc' = "build" <=> addressUtxos' # << >>)]_vars

\* C29 witness: a request is out whose funding UTXO was not the first of
\* two listed.
C29_Witness ==
    /\ buildRequest.sent
    /\ Len(addressUtxos) = 2
    /\ buildRequest.funding_utxos = <<addressUtxos[2]>>

(***************************************************************************)
(* Claims about the transfer (checked under SpecTransfer)                  *)
(***************************************************************************)
\* the token an output carries
TokenOf(output) == IF output.hasToken THEN output.token ELSE Zero
\* recipient + change of a plan against the selection result it was built from
Conserves(plan) ==
    /\ ExactAdd(TokenOf(plan[1]), TokenOf(plan[2])) = selResult.accumulatedTokenAmount
    /\ plan[1].lovelace + plan[2].lovelace = selResult.accumulatedAda - selInput.transactionFee

\* C16: for every plan built from a selection result, recipient token + change
\* token = accumulatedToken and recipient base + change base = accumulatedBase
\* - fee, whether the plan comes from buildTransferTransaction or from
\* createTransactionOutputs.
C16_OutputsConserve ==
    /\ txOutputs # NoOutputs => Conserves(txOutputs)
    /\ outputs # NoOutputs => Conserves(outputs)

\* exactly recipient and change, the change with a token entry only when
\* accumulatedToken - requiredTokenAmount is nonzero
TwoOutputs(plan) ==
    /\ Len(plan) = 2
    /\ plan[1].address = "recipient"
    /\ plan[2].address = "sender"
    /\ plan[2].hasToken =>
          ExactSub(selResult.accumulatedTokenAmount, selInput.requiredTokenAmount) # Zero

\* C17: output construction emits exactly two outputs, recipient and change,
\* and the change output has a token entry only when accumulatedToken -
\* requiredTokenAmount is nonzero; a fully drained token balance leaves a
\* change output of base asset only.
C17_ChangeTokenOnlyIfNonzero ==
    /\ txOutputs # NoOutputs => TwoOutputs(txOutputs)
    /\ outputs # NoOutputs => TwoOutputs(outputs)

\* the order in which transferClaims records its steps
TransferOrder == <<"validate", "build", "createTransaction", "sign", "submit">>

\* C20: transferClaims runs selection and validation, build, sign, submit in
\* that order, and when validateSufficientBalance finds a shortfall the call
\* fails with the shortfall detail and no signing request and no submission
\* is ever made.
C20_ShortfallFailsBeforeSigning ==
    [][/\ Len(trLog') <= Len(TransferOrder)
       /\ \A i \in DOMAIN trLog' :
             /\ trLog'[i].step = TransferOrder[i]
             /\ i < Len(trLog') => (trLog'[i].ok \/ trLog'[i].step = "createTransaction")
       /\ selPc' \in {"start", "selected"} => trLog' = << >>
       /\ StepDone(trLog', "submit") => StepDone(trLog', "sign")
       /\ selError'.code = "INSUFFICIENT_BALANCE" =>
             /\ txOutputs' = NoOutputs
             /\ ~\E i \in DOMAIN trLog' : trLog'[i].step \in {"build", "createTransaction", "sign", "submit"}
             /\ trPc' \in {"select", "failed"}
             /\ trPc' = "failed" => trError' = [step |-> "validate", detail |-> selError']
       /\ (selError'.code = "INSUFFICIENT_BALANCE" /\ selError.code = "none") =>
             /\ selError'.requiredTokenAmount = selInput.requiredTokenAmount
             /\ selError'.accumulatedTokenAmount = selResult.accumulatedTokenAmount
             /\ selError'.requiredAda = selInput.minRecipientLovelace + selInput.transactionFee
             /\ selError'.accumulatedAda = selResult.accumulatedAda
             /\ \/ NumLess(selResult.accumulatedTokenAmount, selInput.requiredTokenAmount)
                \/ selResult.accumulatedAda < selInput.minRecipientLovelace + selInput.transactionFee]_vars

C20_Witness ==
    /\ trPc = "failed"
    /\ trError.step = "validate"
    /\ trError.detail.code = "INSUFFICIENT_BALANCE"
    /\ trError.detail.accumulatedAda < trError.detail.requiredAda

\* the UTXOs handed to the output construction
SelectedSet == {selResult.selectedUtxos[i] : i \in DOMAIN selResult.selectedUtxos}

\* C30: whenever the token total over the selected UTXOs is less than the
\* transfer amount, createTransactionOutputs throws the insufficient-tokens
\* error; and when it throws that error it has produced no outputs.
C30_TooFewTokensThrows ==
    [][(outputs' # outputs \/ outputsError' # outputsError) =>
          /\ NumLess(SumToken(SelectedSet, utxos), selInput.requiredTokenAmount)
                => outputsError' = "Insufficient tokens"
          /\ outputsError' = "Insufficient tokens" => outputs' = NoOutputs]_vars

\* C30 witness: the construction threw on a selection that holds tokens,
\* fewer than asked for.
C30_Witness ==
    /\ outputsError = "Insufficient tokens"
    /\ NumLess(Zero, SumToken(SelectedSet, utxos))

(***************************************************************************)
(* Claims about the SDK pool (checked under SpecPool)                      *)
(***************************************************************************)

\* C1: for every key, at most one caller holds the pool entry at a time: no
\* two clients hold the same handle at once, i.e. a getSdk for a key whose
\* entry is handed out and not yet released never returns that handle.
C1_AtMostOneHolder ==
    \A p, q \in Callers :
        (p # q /\ Holding(p) /\ Holding(q)) => caller[p].sdk # caller[q].sdk

\* C2: after getSdk(v, c) followed by the releaseSdk(v) of
\* executeTransaction's finally block, the pool entry of key (v, c) is idle
\* and its lastUsed is the time of the release, whether the operation
\* succeeded or threw.
C2_ReleasedAfterFinally ==
    [][\A p \in Callers, ok \in BOOLEAN :
          ExecuteFinally(p, ok) =>
             \A i \in DOMAIN sdkPool' :
                sdkPool'[i].key = CallerKey(p) =>
                   ~sdkPool'[i].isInUse /\ sdkPool'[i].lastUsed = now]_vars

\* C6: when the pool holds maxPoolSize entries of which at least one is idle
\* and getSdk is called for a key not in the pool, exactly one entry is
\* removed, it is an idle entry with the oldest lastUsed among the idle
\* ones, and the call goes on to construct the new handle.
C6_EvictsOldestIdle ==
    [][\A p \in Callers, v \in VaultIds, c \in Chains :
          ( /\ GetSdk(p, v, c)
            /\ Len(sdkPool) = poolConfig.maxPoolSize
            /\ IdleIdx(sdkPool) # {}
            /\ PoolGet(sdkPool, PoolKey(v, c)) = 0 )
          => /\ \E i \in IdleIdx(sdkPool) :
                   /\ \A j \in IdleIdx(sdkPool) :
                         sdkPool[i].lastUsed <= sdkPool[j].lastUsed
                   /\ sdkPool' = PoolDelete(sdkPool, sdkPool[i].key)
             /\ caller'[p].pc = "evicting"
             /\ caller'[p].removed]_vars

\* C7: when the pool holds maxPoolSize entries, all in use, getSdk for a key
\* not in the pool fails with the capacity error: the call removes no entry,
\* finds nothing to evict, and its next step is the throw, which constructs
\* no handle, leaves the pool as it is and leaves the caller without a handle.
C7_CapacityError ==
    [][\A p \in Callers :
          /\ \A v \in VaultIds, c \in Chains :
                ( /\ GetSdk(p, v, c)
                  /\ Len(sdkPool) = poolConfig.maxPoolSize
                  /\ IdleIdx(sdkPool) = {}
                  /\ PoolGet(sdkPool, PoolKey(v, c)) = 0 )
                => /\ sdkPool' = sdkPool
                   /\ caller'[p].pc = "evicting"
                   /\ ~caller'[p].removed
          /\ ( /\ caller[p].pc = "evicting"
               /\ ~caller[p].removed
               /\ caller'[p] # caller[p] )
             => /\ GetSdkAfterEvict(p)
                /\ caller'[p] = IdleCaller
                /\ sdkPool' = sdkPool]_vars

\* C7 witness: a call found the pool full with every entry in use and is
\* about to throw the capacity error.
C7_Witness ==
    \E p \in Callers :
        /\ caller[p].pc = "evicting"
        /\ ~caller[p].removed
        /\ Len(sdkPool) = poolConfig.maxPoolSize
        /\ IdleIdx(sdkPool) = {}

\* C8: an entry with isInUse = true is never removed from the pool by
\* capacity eviction (a getSdk step) or by the idle sweep.
C8_InUseNeverEvicted ==
    [][(CleanupIdleSdks \/ \E p \in Callers, v \in VaultIds, c \in Chains : GetSdk(p, v, c))
          => \A i \in DOMAIN sdkPool :
                sdkPool[i].isInUse =>
                   \E j \in DOMAIN sdkPool' :
                      /\ sdkPool'[j].key = sdkPool[i].key
                      /\ sdkPool'[j].sdk = sdkPool[i].sdk]_vars

\* C8 witness: capacity eviction has removed an entry while another entry,
\* in use, is still in the pool.
C8_Witness ==
    \E p \in Callers :
        /\ caller[p].pc = "evicting"
        /\ caller[p].removed
        /\ InUseKeys(sdkPool) # {}

\* C18: a sweep removes every idle entry whose time since lastUsed is
\* longer than idleTimeoutMs and keeps, unchanged, every idle entry whose
\* idle time is shorter than idleTimeoutMs.
C18_SweepRemovesExpiredIdle ==
    [][CleanupIdleSdks =>
          \A i \in DOMAIN sdkPool :
             ~sdkPool[i].isInUse =>
                /\ now - sdkPool[i].lastUsed > poolConfig.idleTimeoutMs =>
                      PoolGet(sdkPool', sdkPool[i].key) = 0
                /\ now - sdkPool[i].lastUsed < poolConfig.idleTimeoutMs =>
                      \E j \in DOMAIN sdkPool' : sdkPool'[j] = sdkPool[i]]_vars

\* C18 witness: the timer is armed and the pool holds an idle entry older
\* than the timeout, which the next sweep removes.
C18_Witness ==
    /\ cleanupInterval
    /\ \E i \in DOMAIN sdkPool :
          /\ ~sdkPool[i].isInUse
          /\ now - sdkPool[i].lastUsed > poolConfig.idleTimeoutMs

\* C19: when createSdkInstance fails inside getSdk, the call rejects (the
\* caller is left without a handle) and the pool is as it was: no entry for
\* the requested key is added.
C19_FailedCreateAddsNothing ==
    [][\A p \in Callers :
          (caller[p].pc = "creating" /\ caller'[p].pc = "idle") =>
             /\ caller'[p].sdk = NoSdk
             /\ sdkPool' = sdkPool]_vars

\* C19 witness: a getSdk call is waiting for createSdkInstance and the pool
\* has no entry for its key.
C19_Witness ==
    \E p \in Callers :
        /\ caller[p].pc = "creating"
        /\ PoolGet(sdkPool, CallerKey(p)) = 0

C25_ReuseKeepsPool ==
    [][\A p \in Callers :
          (caller[p].pc = "idle" /\ caller'[p].pc # "idle") =>
             LET key == PoolKey(caller'[p].vaultAccountId, caller'[p].chain)
                 i == PoolGet(sdkPool, key)
             IN (i # 0 /\ ~sdkPool[i].isInUse) =>
                   /\ caller'[p].pc = "holding"
                   /\ caller'[p].sdk = sdkPool[i].sdk
                   /\ Len(sdkPool') = Len(sdkPool)
                   /\ sdkPool'[i] = [key |-> key, sdk |-> sdkPool[i].sdk,
                                     lastUsed |-> now, isInUse |-> TRUE]
                   /\ \A j \in DOMAIN sdkPool : j # i => sdkPool'[j] = sdkPool[j]]_vars

\* C25 witness: the pool is full, one of its entries is idle and was last
\* used before now, and a client is free to ask for it.
C25_Witness ==
    /\ Len(sdkPool) >= poolConfig.maxPoolSize
    /\ \E i \in DOMAIN sdkPool : ~sdkPool[i].isInUse /\ sdkPool[i].lastUsed < now
    /\ \E p \in Callers : caller[p].pc = "idle"

\* C31: releaseSdk called with a key that matches no pool entry is a no-op:
\* no entry's isInUse or lastUsed changes and nothing is removed, and the
\* call ends without an error (the client is simply out of its call). Both
\* releases are covered: the one of executeTransaction's finally block, with
\* the vault account id, and a client's own, with the full pool key.
C31_UnmatchedReleaseIsNoOp ==
    [][\A p \in Callers :
          /\ \A ok \in BOOLEAN :
                ( /\ ExecuteFinally(p, ok)
                  /\ PoolGet(sdkPool, caller[p].vaultAccountId) = 0 )
                => sdkPool' = sdkPool /\ caller'[p] = IdleCaller
          /\ ( /\ ReleaseSdk(p)
               /\ PoolGet(sdkPool, CallerKey(p)) = 0 )
             => sdkPool' = sdkPool /\ caller'[p] = IdleCaller]_vars

\* C31 witness: an entry is still marked in use although no client is in a
\* call for its key any more: the release that ended the call matched no
\* entry and changed nothing.
C31_Witness ==
    \E i \in DOMAIN sdkPool :
        /\ sdkPool[i].isInUse
        /\ \A p \in Callers : caller[p].pc = "idle"

\* C32: the number of entries in the pool never exceeds maxPoolSize, in
\* every interleaving of getSdk calls (those waiting for a handle under
\* construction included), releases and sweep ticks.
C32_SizeWithinMax ==
    Len(sdkPool) <= poolConfig.maxPoolSize

\* the calls in flight that hold a handle
InFlightHolders == {p \in Callers : Holding(p)}

\* C33: at every moment of a manager that was not shut down, the number of
\* pool entries marked in use (activeInstances of getMetrics) equals the
\* number of calls in flight that hold a handle; with no call in flight no
\* entry is in use.
C33_ActiveEqualsInFlight ==
    cleanupInterval =>
        /\ activeInstances(sdkPool) = Cardinality(InFlightHolders)
        /\ (\A p \in Callers : caller[p].pc = "idle")
              => activeInstances(sdkPool) = 0

\* C34: as long as shutdown has not been called, every handle getSdk has
\* returned and that was not released is the handle stored in the pool
\* entry of its key: no client holds a handle the pool does not track.
C34_HeldHandleIsTracked ==
    cleanupInterval =>
        \A p \in Callers :
            Holding(p) =>
                \E i \in DOMAIN sdkPool :
                    /\ sdkPool[i].key = CallerKey(p)
                    /\ sdkPool[i].sdk = caller[p].sdk

\* the step of client p with which its getSdk call rejects
GetSdkFails(p) ==
    /\ caller[p].pc \in {"evicting", "creating"}
    /\ caller'[p].pc = "idle"

\* C36 as stated: a getSdk call that fails, with the capacity error or
\* because createSdkInstance failed, leaves the set of pool entries as it
\* was before the call: the call has removed no entry and its failing step
\* changes none.
C36_FailedGetSdkKeepsPool ==
    [][\A p \in Callers :
          GetSdkFails(p) => ~caller[p].removed /\ sdkPool' = sdkPool]_vars

\* C36 amended: a getSdk call that fails with the capacity error has
\* changed no pool entry; one that fails because createSdkInstance failed
\* has added no entry and has removed at most the one idle entry it evicted
\* to make room, which stays removed. Step by step: the first step of a
\* call that does not return a handle either changes nothing or deletes one
\* idle entry (and then removed is true); the throw of the capacity error
\* follows only removed = false and changes nothing; the rejection after
\* createSdkInstance changes nothing.
C36_FailedGetSdkEvictsAtMostOne ==
    [][\A p \in Callers :
          /\ (caller[p].pc = "idle" /\ caller'[p].pc = "creating")
                => sdkPool' = sdkPool /\ ~caller'[p].removed
          /\ (caller[p].pc = "idle" /\ caller'[p].pc = "evicting")
                => IF caller'[p].removed
                   THEN \E i \in IdleIdx(sdkPool) :
                           sdkPool' = PoolDelete(sdkPool, sdkPool[i].key)
                   ELSE sdkPool' = sdkPool
          /\ (caller[p].pc = "evicting" /\ caller'[p].pc = "idle")
                => ~caller[p].removed /\ sdkPool' = sdkPool
          /\ (caller[p].pc = "evicting" /\ caller'[p].pc = "creating")
                => caller[p].removed /\ sdkPool' = sdkPool
          /\ (caller[p].pc = "creating" /\ caller'[p].pc = "idle")
                => sdkPool' = sdkPool]_vars

\* C36 witness: a call that evicted an idle entry is waiting for
\* createSdkInstance, which may fail.
C36_Witness ==
    \E p \in Callers :
        /\ caller[p].pc = "creating"
        /\ caller[p].removed
        /\ Len(sdkPool) < poolConfig.maxPoolSize

\* the places where two consecutive observed statuses differ
StatusChanges(observed) ==
    {i \in 1..(Len(observed) - 1) : observed[i] # observed[i + 1]}

\* C40: during one getTxStatus run the number of status-change log lines
\* equals the number of times two consecutive observed statuses differ:
\* each change is logged once, and a poll that observes the status of the
\* poll before it logs nothing.
C40_OneLogLinePerChange ==
    txLog = Cardinality(StatusChanges(txObserved))

\* C40 witness: three statuses were observed, the second differs from the
\* first and the third repeats the second; one change was logged.
C40_Witness ==
    /\ Len(txObserved) = 3
    /\ txObserved[1] # txObserved[2]
    /\ txObserved[2] = txObserved[3]
    /\ txLog = 1

\* C35: in every selection result, accumulatedAda is the sum of the
\* lovelace of the selected UTXOs and accumulatedTokenAmount is the sum of
\* their quantities of the target token, the UTXOs added by the second loop
\* included.
C35_AccumulatedAreSums ==
    selPc \in {"selected", "returned"} =>
        /\ selResult.accumulatedAda = SumLovelace(SelectedSet, utxos)
        /\ selResult.accumulatedTokenAmount = SumToken(SelectedSet, utxos)

(***************************************************************************)
(* The two loops of the selection, described from their result             *)
(***************************************************************************)
\* the UTXOs at the address that hold the target token
TokenHolders == {i \in DOMAIN utxos : utxos[i].token # Zero}

\* the orders in which the members of S can be taken
Orderings(S) ==
    {s \in [1..Cardinality(S) -> S] : \A i, j \in DOMAIN s : i # j => s[i] # s[j]}

\* the token holders by on-chain quantity, largest first, equal quantities
\* in the order of the provider's listing
ByTokenQuantity ==
    CHOOSE s \in Orderings(TokenHolders) :
        \A i, j \in DOMAIN s :
            i < j => \/ NumLess(utxos[s[j]].token, utxos[s[i]].token)
                     \/ (utxos[s[j]].token = utxos[s[i]].token /\ s[i] < s[j])

\* accumulatedTokenAmount and accumulatedAda after the first k of s
RECURSIVE TokenAfter(_, _)
TokenAfter(s, k) ==
    IF k = 0 THEN Zero
    ELSE NumAdd(TokenAfter(s, k - 1), calculateTokenAmount(utxos[s[k]]))
AdaAfter(s, k) == SumLovelace({s[i] : i \in 1..k}, utxos)

\* both tests of the first loop hold after the first k of s
Qualifies(s, k) ==
    /\ ~NumLess(TokenAfter(s, k), selInput.requiredTokenAmount)
    /\ AdaAfter(s, k) >= selInput.minRecipientLovelace + selInput.transactionFee

\* the length of the shortest qualifying prefix of s, Len(s) if there is none
ShortestPrefix(s) ==
    IF \E k \in 1..Len(s) : Qualifies(s, k)
    THEN CHOOSE k \in 1..Len(s) :
            Qualifies(s, k) /\ \A m \in 1..(k - 1) : ~Qualifies(s, m)
    ELSE Len(s)

\* C39: given at least one UTXO holding the target token, phase 1 considers
\* only the token-holding UTXOs, takes them in descending order of their
\* token quantity and selects the shortest prefix after which both
\* accumulatedToken >= requiredTokenAmount and
\* accumulatedAda >= minRecipientLovelace + transactionFee hold, all of them
\* if no prefix qualifies; equal quantities are taken in listing order, so
\* the selection is a function of the listing and the parameters.
C39_Phase1ShortestPrefix ==
    selPc \in {"selected", "returned"} =>
        LET n == ShortestPrefix(ByTokenQuantity)
        IN /\ Len(selResult.selectedUtxos) >= n
           /\ SubSeq(selResult.selectedUtxos, 1, n) = SubSeq(ByTokenQuantity, 1, n)

\* the first loop's part of a result: the shortest qualifying prefix of the
\* order the code sorts the token holders in
Phase1Len == ShortestPrefix(SortByTokenDesc(filterUtxos(utxos), utxos))
Phase1Set == {selResult.selectedUtxos[i] : i \in 1..Phase1Len}
\* what the second loop added
Phase2 == SubSeq(selResult.selectedUtxos, Phase1Len + 1, Len(selResult.selectedUtxos))
\* accumulatedAda after the first k additions of the second loop
AdaAfterPhase2(k) ==
    SumLovelace(Phase1Set \cup {Phase2[i] : i \in 1..k}, utxos)

C37_FailsOnlyBeforeSubmission ==
    redPc = "failed" => ~StepDone(redLog, "submit")

====
